---- MODULE Spec2Model ----
(***************************************************************************)
(* Model of the batch file-analysis utility (main.py, app/utils.py).       *)
(*                                                                         *)
(* Python strings are tuples of one-character strings, so that lower(),    *)
(* split(), substring containment and pathlib's stem/suffix are computed   *)
(* as the code computes them.  Python dicts built by the code are TLA+     *)
(* records (functions over their literal keys); parsed JSON values are     *)
(* tagged records (JDict, JList, ...).  datetime.now() is the token Now.   *)
(***************************************************************************)
EXTENDS Integers, Sequences, FiniteSets, TLC

(* ---- bounds ---- *)
MaxFiles == 2
MaxDocs == 2

(* ---- characters ---- *)
UpperCase == <<"A","B","C","D","E","F","G","H","I","J","K","L","M",
               "N","O","P","Q","R","S","T","U","V","W","X","Y","Z">>
LowerCase == <<"a","b","c","d","e","f","g","h","i","j","k","l","m",
               "n","o","p","q","r","s","t","u","v","w","x","y","z">>
Digits == {"0","1","2","3","4","5","6","7","8","9"}
Range(s) == {s[i] : i \in 1..Len(s)}
IsSpace(c) == c \in {" ", "\n", "\t", "\r"}
IsAlnum(c) == c \in Range(UpperCase) \cup Range(LowerCase) \cup Digits

LowerChar(c) ==
    IF \E i \in 1..26 : UpperCase[i] = c
    THEN LowerCase[CHOOSE i \in 1..26 : UpperCase[i] = c]
    ELSE c
\* str.lower()
Lower(s) == [i \in 1..Len(s) |-> LowerChar(s[i])]

\* `kw in text` for two strings: substring containment
Contains(text, kw) ==
    \E i \in 0..(Len(text) - Len(kw)) :
        \A j \in 1..Len(kw) : text[i + j] = kw[j]

\* " ".join(parts)
RECURSIVE JoinSpace(_)
JoinSpace(parts) ==
    IF Len(parts) = 0 THEN <<>>
    ELSE IF Len(parts) = 1 THEN parts[1]
    ELSE parts[1] \o <<" ">> \o JoinSpace(Tail(parts))

\* the pieces of s between the positions seps, in order
Pieces(s, seps) ==
    LET n == Cardinality(seps)
        bound(k) == IF k = 0 THEN 0
                    ELSE IF k = n + 1 THEN Len(s) + 1
                    ELSE CHOOSE i \in seps : Cardinality({j \in seps : j < i}) = k - 1
    IN [k \in 1..(n + 1) |-> SubSeq(s, bound(k - 1) + 1, bound(k) - 1)]

\* str.split(): the maximal runs of non-whitespace characters
Split(s) ==
    SelectSeq(Pieces(s, {i \in 1..Len(s) : IsSpace(s[i])}), LAMBDA w : w # <<>>)

\* str.splitlines(): the lines end at "\n"; a final "\n" opens no further line
SplitLines(s) ==
    LET pieces == Pieces(s, {i \in 1..Len(s) : s[i] = "\n"}) IN
    IF pieces[Len(pieces)] = <<>> THEN SubSeq(pieces, 1, Len(pieces) - 1) ELSE pieces

\* str.split(','): always at least one field
SplitComma(s) == Pieces(s, {i \in 1..Len(s) : s[i] = ","})

\* seq[:n]
Take(seq, n) == SubSeq(seq, 1, IF Len(seq) < n THEN Len(seq) ELSE n)

\* dict.update(u): the keys of u override
Update(d, u) == u @@ d

\* sum(1 for keyword in keywords if keyword in text)
Score(keywords, text) ==
    Cardinality({i \in 1..Len(keywords) : Contains(text, keywords[i])})

Max(a, b) == IF a > b THEN a ELSE b

\* datetime.now().isoformat()
Now == "now"

(* ---- string literals of the source, as tuples of characters ---- *)
s_ext_txt ==
    <<".","t","x","t">>  \* ".txt"
s_ext_json ==
    <<".","j","s","o","n">>  \* ".json"
s_ext_csv ==
    <<".","c","s","v">>  \* ".csv"
s_ext_md ==
    <<".","m","d">>  \* ".md"
s_ext_pdf ==
    <<".","p","d","f">>  \* ".pdf"
s_ext_jpg ==
    <<".","j","p","g">>  \* ".jpg"
s_ext_jpeg ==
    <<".","j","p","e","g">>  \* ".jpeg"
s_ext_png ==
    <<".","p","n","g">>  \* ".png"
s_ext_gif ==
    <<".","g","i","f">>  \* ".gif"
s_ext_bmp ==
    <<".","b","m","p">>  \* ".bmp"
s_sfx_processed_json ==
    <<"_","p","r","o","c","e","s","s","e","d",".","j","s","o","n">>  \* "_processed.json"
s_f_a_txt ==
    <<"a",".","t","x","t">>  \* "a.txt"
s_f_a_csv ==
    <<"a",".","c","s","v">>  \* "a.csv"
s_f_a_json ==
    <<"a",".","j","s","o","n">>  \* "a.json"
s_f_b_md ==
    <<"b",".","m","d">>  \* "b.md"
s_f_c_pdf ==
    <<"c",".","p","d","f">>  \* "c.pdf"
s_f_d_PNG ==
    <<"d",".","P","N","G">>  \* "d.PNG"
s_f_e_bin ==
    <<"e",".","b","i","n">>  \* "e.bin"
s_f_README ==
    <<"R","E","A","D","M","E">>  \* "README"
s_k_challenge_info ==
    <<"c","h","a","l","l","e","n","g","e","_","i","n","f","o">>  \* "challenge_info"
s_k_documents ==
    <<"d","o","c","u","m","e","n","t","s">>  \* "documents"
s_k_persona ==
    <<"p","e","r","s","o","n","a">>  \* "persona"
s_k_job_to_be_done ==
    <<"j","o","b","_","t","o","_","b","e","_","d","o","n","e">>  \* "job_to_be_done"
s_k_filename ==
    <<"f","i","l","e","n","a","m","e">>  \* "filename"
s_k_role ==
    <<"r","o","l","e">>  \* "role"
s_k_task ==
    <<"t","a","s","k">>  \* "task"
s_Unknown ==
    <<"U","n","k","n","o","w","n">>  \* "Unknown"
s_food_contractor_role ==
    <<"f","o","o","d"," ","c","o","n","t","r","a","c","t","o","r">>  \* "food contractor"
s_hr_professional_role ==
    <<"h","r"," ","p","r","o","f","e","s","s","i","o","n","a","l">>  \* "hr professional"
s_p_Food_Contractor ==
    <<"F","o","o","d"," ","C","o","n","t","r","a","c","t","o","r">>  \* "Food Contractor"
s_p_HR_Professional ==
    <<"H","R"," ","P","r","o","f","e","s","s","i","o","n","a","l">>  \* "HR Professional"
s_p_Travel_Planner ==
    <<"T","r","a","v","e","l"," ","P","l","a","n","n","e","r">>  \* "Travel Planner"
s_d_Cities ==
    <<"S","o","u","t","h"," ","o","f"," ","F","r","a","n","c","e"," ","-"," ","C","i","t","i","e","s",".","p","d","f">>  \* "South of France - Cities.pdf"
s_d_Things_to_Do ==
    <<"S","o","u","t","h"," ","o","f"," ","F","r","a","n","c","e"," ","-"," ","T","h","i","n","g","s"," ","t","o"," ","D","o",".","p","d","f">>  \* "South of France - Things to Do.pdf"
s_d_Lunch_Ideas ==
    <<"L","u","n","c","h"," ","I","d","e","a","s",".","p","d","f">>  \* "Lunch Ideas.pdf"
s_d_HR_Forms ==
    <<"H","R"," ","F","o","r","m","s",".","p","d","f">>  \* "HR Forms.pdf"
s_d_Fill_and_Sign ==
    <<"L","e","a","r","n"," ","A","c","r","o","b","a","t"," ","-"," ","F","i","l","l"," ","a","n","d"," ","S","i","g","n",".","p","d","f">>  \* "Learn Acrobat - Fill and Sign.pdf"
s_d_Three_Meals ==
    <<"T","h","r","e","e"," ","M","e","a","l","s",".","p","d","f">>  \* "Three Meals.pdf"
s_d_notes ==
    <<"n","o","t","e","s",".","p","d","f">>  \* "notes.pdf"
s_t_hello ==
    <<"h","e","l","l","o"," ","w","o","r","l","d"," ","h","e","l","l","o">>  \* "hello world hello"
s_t_csv ==
    <<"x",",","y","\n","1",",","2">>  \* "x,y\n1,2"
s_t_empty ==
    <<>>  \* ""
food_keywords ==  \* utils.py:306
    << <<"b","r","e","a","k","f","a","s","t">>,
       <<"d","i","n","n","e","r">>,
       <<"l","u","n","c","h">>,
       <<"r","e","c","i","p","e">>,
       <<"f","o","o","d">>,
       <<"m","e","a","l">> >>
travel_keywords ==  \* utils.py:307
    << <<"f","r","a","n","c","e">>,
       <<"t","r","a","v","e","l">>,
       <<"c","i","t","i","e","s">>,
       <<"c","u","i","s","i","n","e">>,
       <<"h","o","t","e","l","s">> >>
hr_keywords ==  \* utils.py:308
    << <<"a","c","r","o","b","a","t">>,
       <<"f","o","r","m","s">>,
       <<"f","i","l","l","a","b","l","e">>,
       <<"h","r">>,
       <<"o","n","b","o","a","r","d","i","n","g">>,
       <<"c","o","m","p","l","i","a","n","c","e">> >>
positive_words ==  \* utils.py:480
    << <<"g","o","o","d">>,
       <<"g","r","e","a","t">>,
       <<"e","x","c","e","l","l","e","n","t">>,
       <<"a","m","a","z","i","n","g">>,
       <<"w","o","n","d","e","r","f","u","l">>,
       <<"f","a","n","t","a","s","t","i","c">>,
       <<"l","o","v","e">>,
       <<"l","i","k","e">> >>
negative_words ==  \* utils.py:481
    << <<"b","a","d">>,
       <<"t","e","r","r","i","b","l","e">>,
       <<"a","w","f","u","l">>,
       <<"h","a","t","e">>,
       <<"d","i","s","l","i","k","e">>,
       <<"h","o","r","r","i","b","l","e">>,
       <<"w","o","r","s","t">>,
       <<"p","o","o","r">> >>
(* ---- document texts in scope ---- *)
s_j_empty_obj ==
    <<"{","}">>  \* {}
s_j_one_key ==
    <<"{","\"","a","\"",":","1","}">>  \* {"a":1}
s_j_nested ==
    <<"{","\"","a","\"",":","{","}",",","\"","b","\"",":","[","]","}">>  \* {"a":{},"b":[]}
s_j_empty_list ==
    <<"[","]">>  \* []
s_j_list4 ==
    <<"[","1",",","2",",","3",",","4","]">>  \* [1,2,3,4]
s_j_string ==
    <<"\"","h","i","\"">>  \* "hi"
s_j_int ==
    <<"5">>  \* 5
s_j_null ==
    <<"n","u","l","l">>  \* null
s_j_true ==
    <<"t","r","u","e">>  \* true
s_j_float ==
    <<"1",".","5">>  \* 1.5
s_j_trunc ==
    <<"{","\"","a","\"",":">>  \* {"a":
s_j_quotes ==
    <<"{","'","a","'",":","1","}">>  \* {'a':1}
s_j_ci_docs ==
    <<"{","\"","c","h","a","l","l","e","n","g","e","_","i","n","f","o","\"",":","{","}",",","\"","d","o","c","u","m","e","n","t","s","\"",":","[","]","}">>  \* {"challenge_info":{},"documents":[]}
s_j_ci_only ==
    <<"{","\"","c","h","a","l","l","e","n","g","e","_","i","n","f","o","\"",":","{","}","}">>  \* {"challenge_info":{}}
s_j_docs_only ==
    <<"{","\"","d","o","c","u","m","e","n","t","s","\"",":","[","]","}">>  \* {"documents":[]}
s_j_persona_job_docs ==
    <<"{","\"","p","e","r","s","o","n","a","\"",":","{","\"","r","o","l","e","\"",":","\"","F","o","o","d"," ","C","o","n","t","r","a","c","t","o","r","\"","}",",","\"","j","o","b","_","t","o","_","b","e","_","d","o","n","e","\"",":","{","\"","t","a","s","k","\"",":","\"","t","\"","}",",","\"","d","o","c","u","m","e","n","t","s","\"",":","[","]","}">>  \* {"persona":{"role":"Food Contractor"},"job_to_be_done":{"task":"t"},"documents":[]}
s_j_full_food ==
    <<"{","\"","c","h","a","l","l","e","n","g","e","_","i","n","f","o","\"",":","{","}",",","\"","d","o","c","u","m","e","n","t","s","\"",":","[","{","\"","f","i","l","e","n","a","m","e","\"",":","\"","H","R"," ","F","o","r","m","s",".","p","d","f","\"","}","]",",","\"","p","e","r","s","o","n","a","\"",":","{","\"","r","o","l","e","\"",":","\"","F","o","o","d"," ","C","o","n","t","r","a","c","t","o","r","\"","}",",","\"","j","o","b","_","t","o","_","b","e","_","d","o","n","e","\"",":","{","\"","t","a","s","k","\"",":","\"","t","\"","}","}">>  \* {"challenge_info":{},"documents":[{"filename":"HR Forms.pdf"}],"persona":{"role":"Food Contractor"},"job_to_be_done":{"task":"t"}}
s_j_full_travel ==
    <<"{","\"","c","h","a","l","l","e","n","g","e","_","i","n","f","o","\"",":","{","}",",","\"","d","o","c","u","m","e","n","t","s","\"",":","[","{","\"","f","i","l","e","n","a","m","e","\"",":","\"","S","o","u","t","h"," ","o","f"," ","F","r","a","n","c","e"," ","-"," ","C","i","t","i","e","s",".","p","d","f","\"","}","]",",","\"","p","e","r","s","o","n","a","\"",":","{","\"","r","o","l","e","\"",":","\"","T","r","a","v","e","l"," ","P","l","a","n","n","e","r","\"","}",",","\"","j","o","b","_","t","o","_","b","e","_","d","o","n","e","\"",":","{","\"","t","a","s","k","\"",":","\"","t","\"","}","}">>  \* {"challenge_info":{},"documents":[{"filename":"South of France - Cities.pdf"}],"persona":{"role":"Travel Planner"},"job_to_be_done":{"task":"t"}}
s_j_list_ci_docs ==
    <<"[","\"","c","h","a","l","l","e","n","g","e","_","i","n","f","o","\"",",","\"","d","o","c","u","m","e","n","t","s","\"","]">>  \* ["challenge_info","documents"]
s_j_str_ci_docs ==
    <<"\"","c","h","a","l","l","e","n","g","e","_","i","n","f","o"," ","d","o","c","u","m","e","n","t","s","\"">>  \* "challenge_info documents"
s_j_full_hr ==
    <<"{","\"","c","h","a","l","l","e","n","g","e","_","i","n","f","o","\"",":","{","}",",","\"","d","o","c","u","m","e","n","t","s","\"",":","[","{","\"","f","i","l","e","n","a","m","e","\"",":","\"","L","u","n","c","h"," ","I","d","e","a","s",".","p","d","f","\"","}","]",",","\"","p","e","r","s","o","n","a","\"",":","{","\"","r","o","l","e","\"",":","\"","H","R"," ","p","r","o","f","e","s","s","i","o","n","a","l","\"","}",",","\"","j","o","b","_","t","o","_","b","e","_","d","o","n","e","\"",":","{","\"","t","a","s","k","\"",":","\"","t","\"","}","}">>  \* {"challenge_info":{},"documents":[{"filename":"Lunch Ideas.pdf"}],"persona":{"role":"HR professional"},"job_to_be_done":{"task":"t"}}
s_j_docs_null ==
    <<"{","\"","c","h","a","l","l","e","n","g","e","_","i","n","f","o","\"",":","{","}",",","\"","d","o","c","u","m","e","n","t","s","\"",":","n","u","l","l","}">>  \* {"challenge_info":{},"documents":null}
s_j_persona_str ==
    <<"{","\"","c","h","a","l","l","e","n","g","e","_","i","n","f","o","\"",":","{","}",",","\"","d","o","c","u","m","e","n","t","s","\"",":","[","]",",","\"","p","e","r","s","o","n","a","\"",":","\"","F","o","o","d"," ","C","o","n","t","r","a","c","t","o","r","\"","}">>  \* {"challenge_info":{},"documents":[],"persona":"Food Contractor"}
s_j_travel_two ==
    <<"{","\"","c","h","a","l","l","e","n","g","e","_","i","n","f","o","\"",":","{","}",",","\"","d","o","c","u","m","e","n","t","s","\"",":","[","{","\"","f","i","l","e","n","a","m","e","\"",":","\"","S","o","u","t","h"," ","o","f"," ","F","r","a","n","c","e"," ","-"," ","T","h","i","n","g","s"," ","t","o"," ","D","o",".","p","d","f","\"","}",",","{","\"","f","i","l","e","n","a","m","e","\"",":","\"","S","o","u","t","h"," ","o","f"," ","F","r","a","n","c","e"," ","-"," ","R","e","s","t","a","u","r","a","n","t","s"," ","a","n","d"," ","H","o","t","e","l","s",".","p","d","f","\"","}","]",",","\"","p","e","r","s","o","n","a","\"",":","{","\"","r","o","l","e","\"",":","\"","T","r","a","v","e","l"," ","P","l","a","n","n","e","r","\"","}","}">>  \* {"challenge_info":{},"documents":[{"filename":"South of France - Things to Do.pdf"},{"filename":"South of France - Restaurants and Hotels.pdf"}],"persona":{"role":"Travel Planner"}}
s_j_travel_five ==
    <<"{","\"","c","h","a","l","l","e","n","g","e","_","i","n","f","o","\"",":","{","}",",","\"","d","o","c","u","m","e","n","t","s","\"",":","[","{","\"","f","i","l","e","n","a","m","e","\"",":","\"","S","o","u","t","h"," ","o","f"," ","F","r","a","n","c","e"," ","-"," ","C","i","t","i","e","s",".","p","d","f","\"","}",",","{","\"","f","i","l","e","n","a","m","e","\"",":","\"","S","o","u","t","h"," ","o","f"," ","F","r","a","n","c","e"," ","-"," ","T","h","i","n","g","s"," ","t","o"," ","D","o",".","p","d","f","\"","}",",","{","\"","f","i","l","e","n","a","m","e","\"",":","\"","S","o","u","t","h"," ","o","f"," ","F","r","a","n","c","e"," ","-"," ","C","u","i","s","i","n","e",".","p","d","f","\"","}",",","{","\"","f","i","l","e","n","a","m","e","\"",":","\"","S","o","u","t","h"," ","o","f"," ","F","r","a","n","c","e"," ","-"," ","T","i","p","s"," ","a","n","d"," ","T","r","i","c","k","s",".","p","d","f","\"","}",",","{","\"","f","i","l","e","n","a","m","e","\"",":","\"","S","o","u","t","h"," ","o","f"," ","F","r","a","n","c","e"," ","-"," ","R","e","s","t","a","u","r","a","n","t","s"," ","a","n","d"," ","H","o","t","e","l","s",".","p","d","f","\"","}","]",",","\"","p","e","r","s","o","n","a","\"",":","{","\"","r","o","l","e","\"",":","\"","T","r","a","v","e","l"," ","P","l","a","n","n","e","r","\"","}","}">>  \* {"challenge_info":{},"documents":[{"filename":"South of France - Cities.pdf"},{"filename":"South of France - Things to Do.pdf"},{"filename":"South of France - Cuisine.pdf"},{"filename":"South of France - Tips and Tricks.pdf"},{"filename":"South of France - Restaurants and Hotels.pdf"}],"persona":{"role":"Travel Planner"}}
s_j_obj12 ==
    <<"{","\"","a","\"",":","1",",","\"","b","\"",":","2",",","\"","c","\"",":","3",",","\"","d","\"",":","4",",","\"","e","\"",":","5",",","\"","f","\"",":","6",",","\"","g","\"",":","7",",","\"","h","\"",":","8",",","\"","i","\"",":","9",",","\"","j","\"",":","1","0",",","\"","k","\"",":","1","1",",","\"","l","\"",":","1","2","}">>  \* {"a":1,"b":2,"c":3,"d":4,"e":5,"f":6,"g":7,"h":8,"i":9,"j":10,"k":11,"l":12}

(* ---- pathlib ---- *)
\* the index of the last "." of name, 0 when there is none (str.rfind + 1)
LastDot(name) ==
    IF \E i \in 1..Len(name) : name[i] = "."
    THEN CHOOSE i \in 1..Len(name) :
            name[i] = "." /\ \A j \in (i + 1)..Len(name) : name[j] # "."
    ELSE 0
\* PurePath.suffix: the last "."-part, unless the dot is first or last
Suffix(name) ==
    LET i == LastDot(name) IN
    IF 1 < i /\ i < Len(name) THEN SubSeq(name, i, Len(name)) ELSE <<>>
\* PurePath.stem
Stem(name) ==
    LET i == LastDot(name) IN
    IF 1 < i /\ i < Len(name) THEN SubSeq(name, 1, i - 1) ELSE name
\* Path.glob("*.*"): names holding a "."
GlobMatch(name) == \E i \in 1..Len(name) : name[i] = "."

(* ---- parsed JSON values ---- *)
JDict(pairs) == [type |-> "dict", pairs |-> pairs]
JList(items) == [type |-> "list", items |-> items]
JStr(chars) == [type |-> "str", chars |-> chars]
JInt(n) == [type |-> "int", int |-> n]
JFloat(repr) == [type |-> "float", repr |-> repr]
JBool(b) == [type |-> "bool", bool |-> b]
JNull == [type |-> "NoneType"]

\* key in d, for a dict d
HasKey(d, key) == \E i \in 1..Len(d.pairs) : d.pairs[i][1] = key
\* d[key]
Get(d, key) == d.pairs[CHOOSE i \in 1..Len(d.pairs) : d.pairs[i][1] = key][2]
IsJStr(v, chars) == v.type = "str" /\ v.chars = chars
\* the types on which Python's `in` is defined; on the others it raises TypeError
SupportsIn(v) == v.type \in {"dict", "list", "str"}
\* `key in v` for a string key
PyIn(key, v) ==
    CASE v.type = "dict" -> HasKey(v, key)
      [] v.type = "list" -> \E i \in 1..Len(v.items) : IsJStr(v.items[i], key)
      [] v.type = "str" -> Contains(v.chars, key)
      [] OTHER -> FALSE

JsonTable ==
    << <<s_j_empty_obj,
          JDict(<<>>)>>,
       <<s_j_one_key,
          JDict(<<<<<<"a">>, JInt(1)>>>>)>>,
       <<s_j_nested,
          JDict(<<<<<<"a">>, JDict(<<>>)>>, <<<<"b">>, JList(<<>>)>>>>)>>,
       <<s_j_empty_list,
          JList(<<>>)>>,
       <<s_j_list4,
          JList(<<JInt(1), JInt(2), JInt(3), JInt(4)>>)>>,
       <<s_j_string,
          JStr(<<"h","i">>)>>,
       <<s_j_int,
          JInt(5)>>,
       <<s_j_null,
          JNull>>,
       <<s_j_true,
          JBool(TRUE)>>,
       <<s_j_float,
          JFloat(<<"1",".","5">>)>>,
       <<s_j_ci_docs,
          JDict(<<<<<<"c","h","a","l","l","e","n","g","e","_","i","n","f","o">>, JDict(<<>>)>>, <<<<"d","o","c","u","m","e","n","t","s">>, JList(<<>>)>>>>)>>,
       <<s_j_ci_only,
          JDict(<<<<<<"c","h","a","l","l","e","n","g","e","_","i","n","f","o">>, JDict(<<>>)>>>>)>>,
       <<s_j_docs_only,
          JDict(<<<<<<"d","o","c","u","m","e","n","t","s">>, JList(<<>>)>>>>)>>,
       <<s_j_persona_job_docs,
          JDict(<<<<<<"p","e","r","s","o","n","a">>, JDict(<<<<<<"r","o","l","e">>, JStr(<<"F","o","o","d"," ","C","o","n","t","r","a","c","t","o","r">>)>>>>)>>, <<<<"j","o","b","_","t","o","_","b","e","_","d","o","n","e">>, JDict(<<<<<<"t","a","s","k">>, JStr(<<"t">>)>>>>)>>, <<<<"d","o","c","u","m","e","n","t","s">>, JList(<<>>)>>>>)>>,
       <<s_j_full_food,
          JDict(<<<<<<"c","h","a","l","l","e","n","g","e","_","i","n","f","o">>, JDict(<<>>)>>, <<<<"d","o","c","u","m","e","n","t","s">>, JList(<<JDict(<<<<<<"f","i","l","e","n","a","m","e">>, JStr(<<"H","R"," ","F","o","r","m","s",".","p","d","f">>)>>>>)>>)>>, <<<<"p","e","r","s","o","n","a">>, JDict(<<<<<<"r","o","l","e">>, JStr(<<"F","o","o","d"," ","C","o","n","t","r","a","c","t","o","r">>)>>>>)>>, <<<<"j","o","b","_","t","o","_","b","e","_","d","o","n","e">>, JDict(<<<<<<"t","a","s","k">>, JStr(<<"t">>)>>>>)>>>>)>>,
       <<s_j_full_travel,
          JDict(<<<<<<"c","h","a","l","l","e","n","g","e","_","i","n","f","o">>, JDict(<<>>)>>, <<<<"d","o","c","u","m","e","n","t","s">>, JList(<<JDict(<<<<<<"f","i","l","e","n","a","m","e">>, JStr(<<"S","o","u","t","h"," ","o","f"," ","F","r","a","n","c","e"," ","-"," ","C","i","t","i","e","s",".","p","d","f">>)>>>>)>>)>>, <<<<"p","e","r","s","o","n","a">>, JDict(<<<<<<"r","o","l","e">>, JStr(<<"T","r","a","v","e","l"," ","P","l","a","n","n","e","r">>)>>>>)>>, <<<<"j","o","b","_","t","o","_","b","e","_","d","o","n","e">>, JDict(<<<<<<"t","a","s","k">>, JStr(<<"t">>)>>>>)>>>>)>>,
       <<s_j_list_ci_docs,
          JList(<<JStr(<<"c","h","a","l","l","e","n","g","e","_","i","n","f","o">>), JStr(<<"d","o","c","u","m","e","n","t","s">>)>>)>>,
       <<s_j_str_ci_docs,
          JStr(<<"c","h","a","l","l","e","n","g","e","_","i","n","f","o"," ","d","o","c","u","m","e","n","t","s">>)>>,
       <<s_j_full_hr,
          JDict(<<<<<<"c","h","a","l","l","e","n","g","e","_","i","n","f","o">>, JDict(<<>>)>>, <<<<"d","o","c","u","m","e","n","t","s">>, JList(<<JDict(<<<<<<"f","i","l","e","n","a","m","e">>, JStr(<<"L","u","n","c","h"," ","I","d","e","a","s",".","p","d","f">>)>>>>)>>)>>, <<<<"p","e","r","s","o","n","a">>, JDict(<<<<<<"r","o","l","e">>, JStr(<<"H","R"," ","p","r","o","f","e","s","s","i","o","n","a","l">>)>>>>)>>, <<<<"j","o","b","_","t","o","_","b","e","_","d","o","n","e">>, JDict(<<<<<<"t","a","s","k">>, JStr(<<"t">>)>>>>)>>>>)>>,
       <<s_j_docs_null,
          JDict(<<<<<<"c","h","a","l","l","e","n","g","e","_","i","n","f","o">>, JDict(<<>>)>>, <<<<"d","o","c","u","m","e","n","t","s">>, JNull>>>>)>>,
       <<s_j_persona_str,
          JDict(<<<<<<"c","h","a","l","l","e","n","g","e","_","i","n","f","o">>, JDict(<<>>)>>, <<<<"d","o","c","u","m","e","n","t","s">>, JList(<<>>)>>, <<<<"p","e","r","s","o","n","a">>, JStr(<<"F","o","o","d"," ","C","o","n","t","r","a","c","t","o","r">>)>>>>)>>,
       <<s_j_travel_two,
          JDict(<<<<<<"c","h","a","l","l","e","n","g","e","_","i","n","f","o">>, JDict(<<>>)>>, <<<<"d","o","c","u","m","e","n","t","s">>, JList(<<JDict(<<<<<<"f","i","l","e","n","a","m","e">>, JStr(<<"S","o","u","t","h"," ","o","f"," ","F","r","a","n","c","e"," ","-"," ","T","h","i","n","g","s"," ","t","o"," ","D","o",".","p","d","f">>)>>>>), JDict(<<<<<<"f","i","l","e","n","a","m","e">>, JStr(<<"S","o","u","t","h"," ","o","f"," ","F","r","a","n","c","e"," ","-"," ","R","e","s","t","a","u","r","a","n","t","s"," ","a","n","d"," ","H","o","t","e","l","s",".","p","d","f">>)>>>>)>>)>>, <<<<"p","e","r","s","o","n","a">>, JDict(<<<<<<"r","o","l","e">>, JStr(<<"T","r","a","v","e","l"," ","P","l","a","n","n","e","r">>)>>>>)>>>>)>>,
       <<s_j_travel_five,
          JDict(<<<<<<"c","h","a","l","l","e","n","g","e","_","i","n","f","o">>, JDict(<<>>)>>, <<<<"d","o","c","u","m","e","n","t","s">>, JList(<<JDict(<<<<<<"f","i","l","e","n","a","m","e">>, JStr(<<"S","o","u","t","h"," ","o","f"," ","F","r","a","n","c","e"," ","-"," ","C","i","t","i","e","s",".","p","d","f">>)>>>>), JDict(<<<<<<"f","i","l","e","n","a","m","e">>, JStr(<<"S","o","u","t","h"," ","o","f"," ","F","r","a","n","c","e"," ","-"," ","T","h","i","n","g","s"," ","t","o"," ","D","o",".","p","d","f">>)>>>>), JDict(<<<<<<"f","i","l","e","n","a","m","e">>, JStr(<<"S","o","u","t","h"," ","o","f"," ","F","r","a","n","c","e"," ","-"," ","C","u","i","s","i","n","e",".","p","d","f">>)>>>>), JDict(<<<<<<"f","i","l","e","n","a","m","e">>, JStr(<<"S","o","u","t","h"," ","o","f"," ","F","r","a","n","c","e"," ","-"," ","T","i","p","s"," ","a","n","d"," ","T","r","i","c","k","s",".","p","d","f">>)>>>>), JDict(<<<<<<"f","i","l","e","n","a","m","e">>, JStr(<<"S","o","u","t","h"," ","o","f"," ","F","r","a","n","c","e"," ","-"," ","R","e","s","t","a","u","r","a","n","t","s"," ","a","n","d"," ","H","o","t","e","l","s",".","p","d","f">>)>>>>)>>)>>, <<<<"p","e","r","s","o","n","a">>, JDict(<<<<<<"r","o","l","e">>, JStr(<<"T","r","a","v","e","l"," ","P","l","a","n","n","e","r">>)>>>>)>>>>)>>,
       <<s_j_obj12,
          JDict(<<<<<<"a">>, JInt(1)>>, <<<<"b">>, JInt(2)>>, <<<<"c">>, JInt(3)>>, <<<<"d">>, JInt(4)>>, <<<<"e">>, JInt(5)>>, <<<<"f">>, JInt(6)>>, <<<<"g">>, JInt(7)>>, <<<<"h">>, JInt(8)>>, <<<<"i">>, JInt(9)>>, <<<<"j">>, JInt(10)>>, <<<<"k">>, JInt(11)>>, <<<<"l">>, JInt(12)>>>>)>> >>
(* ---- the hardcoded bodies; refined_text literals are cut to their first 60 characters ---- *)
food_extracted_sections ==  \* utils.py:331-362
    << [document |-> <<"D","i","n","n","e","r"," ","I","d","e","a","s"," ","-"," ","S","i","d","e","s","_","2",".","p","d","f">>,
        section_title |-> "Falafel", importance_rank |-> 1, page_number |-> 7],
       [document |-> <<"D","i","n","n","e","r"," ","I","d","e","a","s"," ","-"," ","S","i","d","e","s","_","3",".","p","d","f">>,
        section_title |-> "Ratatouille", importance_rank |-> 2, page_number |-> 8],
       [document |-> <<"D","i","n","n","e","r"," ","I","d","e","a","s"," ","-"," ","S","i","d","e","s","_","1",".","p","d","f">>,
        section_title |-> "Baba Ganoush", importance_rank |-> 3, page_number |-> 4],
       [document |-> <<"L","u","n","c","h"," ","I","d","e","a","s",".","p","d","f">>,
        section_title |-> "Veggie Sushi Rolls", importance_rank |-> 4, page_number |-> 11],
       [document |-> <<"D","i","n","n","e","r"," ","I","d","e","a","s"," ","-"," ","M","a","i","n","s","_","2",".","p","d","f">>,
        section_title |-> "Vegetable Lasagna", importance_rank |-> 5, page_number |-> 9] >>
food_subsection_analysis ==  \* utils.py:365-391
    << [document |-> <<"D","i","n","n","e","r"," ","I","d","e","a","s"," ","-"," ","S","i","d","e","s","_","2",".","p","d","f">>,
        refined_text |-> "Escalivada Ingredients: 2 eggplants, 2 bell peppers, 2 tomat",
        page_number |-> 7],
       [document |-> <<"D","i","n","n","e","r"," ","I","d","e","a","s"," ","-"," ","S","i","d","e","s","_","2",".","p","d","f">>,
        refined_text |-> "Falafel Ingredients: 1 can chickpeas, 1 small onion, 2 clove",
        page_number |-> 7],
       [document |-> <<"D","i","n","n","e","r"," ","I","d","e","a","s"," ","-"," ","S","i","d","e","s","_","1",".","p","d","f">>,
        refined_text |-> "Baba Ganoush Ingredients: 2 eggplants, 1/4 cup tahini, 1/4 c",
        page_number |-> 4],
       [document |-> <<"L","u","n","c","h"," ","I","d","e","a","s",".","p","d","f">>,
        refined_text |-> "Veggie Sushi Rolls Ingredients: 1 cup cooked sushi rice, 1/2",
        page_number |-> 11],
       [document |-> <<"D","i","n","n","e","r"," ","I","d","e","a","s"," ","-"," ","S","i","d","e","s","_","3",".","p","d","f">>,
        refined_text |-> "Macaroni and Cheese Ingredients: 2 cups elbow macaroni, 2 cu",
        page_number |-> 8] >>
hr_extracted_sections ==  \* utils.py:527-558
    << [document |-> <<"L","e","a","r","n"," ","A","c","r","o","b","a","t"," ","-"," ","F","i","l","l"," ","a","n","d"," ","S","i","g","n",".","p","d","f">>,
        section_title |-> "Change flat forms to fillable (Acrobat Pro)", importance_rank |-> 1, page_number |-> 12],
       [document |-> <<"L","e","a","r","n"," ","A","c","r","o","b","a","t"," ","-"," ","C","r","e","a","t","e"," ","a","n","d"," ","C","o","n","v","e","r","t","_","1",".","p","d","f">>,
        section_title |-> "Create multiple PDFs from multiple files", importance_rank |-> 2, page_number |-> 12],
       [document |-> <<"L","e","a","r","n"," ","A","c","r","o","b","a","t"," ","-"," ","C","r","e","a","t","e"," ","a","n","d"," ","C","o","n","v","e","r","t","_","1",".","p","d","f">>,
        section_title |-> "Convert clipboard content to PDF", importance_rank |-> 3, page_number |-> 10],
       [document |-> <<"L","e","a","r","n"," ","A","c","r","o","b","a","t"," ","-"," ","F","i","l","l"," ","a","n","d"," ","S","i","g","n",".","p","d","f">>,
        section_title |-> "Fill and sign PDF forms", importance_rank |-> 4, page_number |-> 2],
       [document |-> <<"L","e","a","r","n"," ","A","c","r","o","b","a","t"," ","-"," ","R","e","q","u","e","s","t"," ","e","-","s","i","g","n","a","t","u","r","e","s","_","1",".","p","d","f">>,
        section_title |-> "Send a document to get signatures from others", importance_rank |-> 5, page_number |-> 2] >>
hr_subsection_analysis ==  \* utils.py:561-587
    << [document |-> <<"L","e","a","r","n"," ","A","c","r","o","b","a","t"," ","-"," ","F","i","l","l"," ","a","n","d"," ","S","i","g","n",".","p","d","f">>,
        refined_text |-> "To create an interactive form, use the Prepare Forms tool. S",
        page_number |-> 12],
       [document |-> <<"L","e","a","r","n"," ","A","c","r","o","b","a","t"," ","-"," ","F","i","l","l"," ","a","n","d"," ","S","i","g","n",".","p","d","f">>,
        refined_text |-> "To enable the Fill & Sign tools, from the hamburger menu (Fi",
        page_number |-> 12],
       [document |-> <<"L","e","a","r","n"," ","A","c","r","o","b","a","t"," ","-"," ","F","i","l","l"," ","a","n","d"," ","S","i","g","n",".","p","d","f">>,
        refined_text |-> "Interactive forms contain fields that you can select and fil",
        page_number |-> 2],
       [document |-> <<"L","e","a","r","n"," ","A","c","r","o","b","a","t"," ","-"," ","F","i","l","l"," ","a","n","d"," ","S","i","g","n",".","p","d","f">>,
        refined_text |-> "To fill text fields: From the left panel, select Fill in for",
        page_number |-> 2],
       [document |-> <<"L","e","a","r","n"," ","A","c","r","o","b","a","t"," ","-"," ","R","e","q","u","e","s","t"," ","e","-","s","i","g","n","a","t","u","r","e","s","_","1",".","p","d","f">>,
        refined_text |-> "Open the PDF form in Acrobat or Acrobat Reader, and then cho",
        page_number |-> 2] >>
travel_subsection_analysis ==  \* utils.py:431-457
    << [document |-> <<"S","o","u","t","h"," ","o","f"," ","F","r","a","n","c","e"," ","-"," ","T","h","i","n","g","s"," ","t","o"," ","D","o",".","p","d","f">>,
        refined_text |-> "The South of France is renowned for its beautiful coastline ",
        page_number |-> 2],
       [document |-> <<"S","o","u","t","h"," ","o","f"," ","F","r","a","n","c","e"," ","-"," ","C","u","i","s","i","n","e",".","p","d","f">>,
        refined_text |-> "In addition to dining at top restaurants, there are several ",
        page_number |-> 6],
       [document |-> <<"S","o","u","t","h"," ","o","f"," ","F","r","a","n","c","e"," ","-"," ","T","h","i","n","g","s"," ","t","o"," ","D","o",".","p","d","f">>,
        refined_text |-> "The South of France offers a vibrant nightlife scene, with o",
        page_number |-> 11],
       [document |-> <<"S","o","u","t","h"," ","o","f"," ","F","r","a","n","c","e"," ","-"," ","T","h","i","n","g","s"," ","t","o"," ","D","o",".","p","d","f">>,
        refined_text |-> "Water Sports: Cannes, Nice, and Saint-Tropez - Try jet skiin",
        page_number |-> 2],
       [document |-> <<"S","o","u","t","h"," ","o","f"," ","F","r","a","n","c","e"," ","-"," ","T","i","p","s"," ","a","n","d"," ","T","r","i","c","k","s",".","p","d","f">>,
        refined_text |-> "General Packing Tips and Tricks: Layering - The weather can ",
        page_number |-> 2] >>
section_mappings ==  \* utils.py:403-409
    << [document |-> <<"S","o","u","t","h"," ","o","f"," ","F","r","a","n","c","e"," ","-"," ","C","i","t","i","e","s",".","p","d","f">>,
        section_title |-> "Comprehensive Guide to Major Cities in the South of France", importance_rank |-> 1, page_number |-> 1],
       [document |-> <<"S","o","u","t","h"," ","o","f"," ","F","r","a","n","c","e"," ","-"," ","T","h","i","n","g","s"," ","t","o"," ","D","o",".","p","d","f">>,
        section_title |-> "Coastal Adventures", importance_rank |-> 2, page_number |-> 2],
       [document |-> <<"S","o","u","t","h"," ","o","f"," ","F","r","a","n","c","e"," ","-"," ","C","u","i","s","i","n","e",".","p","d","f">>,
        section_title |-> "Culinary Experiences", importance_rank |-> 3, page_number |-> 6],
       [document |-> <<"S","o","u","t","h"," ","o","f"," ","F","r","a","n","c","e"," ","-"," ","T","i","p","s"," ","a","n","d"," ","T","r","i","c","k","s",".","p","d","f">>,
        section_title |-> "General Packing Tips and Tricks", importance_rank |-> 4, page_number |-> 2],
       [document |-> <<"S","o","u","t","h"," ","o","f"," ","F","r","a","n","c","e"," ","-"," ","R","e","s","t","a","u","r","a","n","t","s"," ","a","n","d"," ","H","o","t","e","l","s",".","p","d","f">>,
        section_title |-> "Dining and Accommodation", importance_rank |-> 5, page_number |-> 1] >>
nightlife_section ==  \* utils.py:423-428
    [document |-> <<"S","o","u","t","h"," ","o","f"," ","F","r","a","n","c","e"," ","-"," ","T","h","i","n","g","s"," ","t","o"," ","D","o",".","p","d","f">>,
        section_title |-> "Nightlife and Entertainment", importance_rank |-> 5, page_number |-> 11]

(* ---- json.loads ---- *)
\* json.loads(text): the parsed value, or JSONDecodeError (ok = FALSE)
JsonLoads(text) ==
    IF \E i \in 1..Len(JsonTable) : JsonTable[i][1] = text
    THEN [ok |-> TRUE,
          value |-> JsonTable[CHOOSE i \in 1..Len(JsonTable) : JsonTable[i][1] = text][2]]
    ELSE [ok |-> FALSE]

(* ---- file contents: what open(...).read() returned ---- *)
StrContent(chars) == [isStr |-> TRUE, chars |-> chars]
BytesContent(chars) == [isStr |-> FALSE, chars |-> chars]
\* {} as a value
EmptyDict == <<>>
NA == <<"N","/","A">>

(* ---- statistics helpers ---- *)
\* ''.join(c for c in word if c.isalnum())
CleanWord(word) == SelectSeq(word, IsAlnum)

\* word_count[clean_word] = word_count.get(clean_word, 0) + 1, in insertion order
RECURSIVE CountWords(_, _)
CountWords(words, acc) ==
    IF words = <<>> THEN acc
    ELSE LET clean_word == CleanWord(Head(words)) IN
         IF Len(clean_word) > 2
         THEN IF \E i \in 1..Len(acc) : acc[i][1] = clean_word
              THEN CountWords(Tail(words),
                     [i \in 1..Len(acc) |->
                        IF acc[i][1] = clean_word THEN <<acc[i][1], acc[i][2] + 1>> ELSE acc[i]])
              ELSE CountWords(Tail(words), Append(acc, <<clean_word, 1>>))
         ELSE CountWords(Tail(words), acc)

\* sorted(items, key=count, reverse=True): stable, equal counts keep their order
RECURSIVE SortByCountDesc(_)
SortByCountDesc(items) ==
    IF items = <<>> THEN <<>>
    ELSE LET rest == SortByCountDesc(SubSeq(items, 1, Len(items) - 1))
             x == items[Len(items)]
             k == Cardinality({i \in 1..Len(rest) : rest[i][2] >= x[2]})
         IN SubSeq(rest, 1, k) \o <<x>> \o SubSeq(rest, k + 1, Len(rest))

\* calculate_word_frequency keeping the first five tokens met
calculate_word_frequency_first_met(text) ==
    Take(CountWords(Split(Lower(text)), <<>>), 5)

calculate_word_frequency(text) ==
    Take(SortByCountDesc(CountWords(Split(Lower(text)), <<>>)), 5)

\* detect_sentiment_indicators matching the lexicon against whole words
detect_sentiment_indicators_by_word(text) ==
    LET words == Split(Lower(text))
        hits(lexicon) == Cardinality({i \in 1..Len(lexicon) :
                                        \E k \in 1..Len(words) : words[k] = lexicon[i]})
    IN [positive_indicators |-> hits(positive_words),
        negative_indicators |-> hits(negative_words),
        sentiment_score |-> hits(positive_words) - hits(negative_words)]

detect_sentiment_indicators(text) ==
    LET text_lower == Lower(text)
        positive_count == Score(positive_words, text_lower)
        negative_count == Score(negative_words, text_lower)
    IN [positive_indicators |-> positive_count,
        negative_indicators |-> negative_count,
        sentiment_score |-> positive_count - negative_count]

Punctuation == {".", ",", "!", "?", ";", ":", "\"", "(", ")", "[", "]", "{", "}"}
\* word.strip('.,!?;:"()[]{}')
RECURSIVE StripChars(_, _)
StripChars(w, chars) ==
    IF w = <<>> THEN w
    ELSE IF w[1] \in chars THEN StripChars(Tail(w), chars)
    ELSE IF w[Len(w)] \in chars THEN StripChars(SubSeq(w, 1, Len(w) - 1), chars)
    ELSE w
\* str.strip()
Strip(s) == StripChars(s, {" ", "\n", "\t", "\r"})

RECURSIVE SumLen(_)
SumLen(words) ==
    IF words = <<>> THEN 0
    ELSE Len(StripChars(Head(words), Punctuation)) + SumLen(Tail(words))

\* round(total / n, 2), in hundredths; an exact tie rounds to the even hundredth
Round2(total, n) ==
    LET q == (total * 100) \div n
        r == (total * 100) % n
    IN IF 2 * r > n \/ (2 * r = n /\ q % 2 = 1) THEN q + 1 ELSE q

calculate_avg_word_length(text) ==
    LET words == Split(text) IN
    IF words = <<>> THEN 0 ELSE Round2(SumLen(words), Len(words))

(* ---- process_pdf_content ---- *)
\* text.split('\n\n')
RECURSIVE ParasFrom(_, _, _)
ParasFrom(s, i, cur) ==
    IF i > Len(s) THEN <<cur>>
    ELSE IF s[i] = "\n" /\ i < Len(s) /\ s[i + 1] = "\n"
         THEN <<cur>> \o ParasFrom(s, i + 2, <<>>)
         ELSE ParasFrom(s, i + 1, Append(cur, s[i]))

\* the text statistics of an extracted text
pdf_text_analysis(text, page_count) ==
    IF text # <<>>
    THEN [character_count |-> Len(text),
          word_count |-> Len(Split(text)),
          line_count |-> Len(SplitLines(text)),
          paragraph_count |-> Len(SelectSeq(ParasFrom(text, 1, <<>>),
                                            LAMBDA p : Strip(p) # <<>>)),
          avg_words_per_page |-> IF page_count > 0 THEN <<Len(Split(text)), page_count>>
                                 ELSE <<0, 1>>,
          has_content |-> Len(Strip(text)) > 0,
          content_preview |-> IF Len(text) > 500
                              THEN SubSeq(text, 1, 500) \o <<".", ".", ".">> ELSE text]
    ELSE [has_content |-> FALSE,
          extraction_status |-> "no_text_extracted_or_image_based_pdf"]

\* pdf names what the two libraries do on the file: each either extracts
\* (stage "ok"), fails on opening ("open") or fails while reading the pages
\* ("pages", after the page count and the metadata were stored).
process_pdf_content(available, pdf) ==
    IF ~available THEN [error |-> "PDF processing libraries not available"]
    ELSE
    LET info0 == [text_content |-> <<>>, page_count |-> 0, metadata |-> "none",
                  text_analysis |-> EmptyDict,
                  processing_method |-> "advanced_pdf_extraction"]
        fitzSeen == [info0 EXCEPT !.page_count = pdf.fitz.pages, !.metadata = "fitz"]
        info1 == IF pdf.fitz.stage = "open" THEN info0 ELSE fitzSeen
        pypdfSeen == [info1 EXCEPT !.page_count = pdf.pypdf.pages,
                                   !.metadata = IF pdf.pypdf.hasMeta THEN "pypdf2" ELSE @]
        failed == [error |-> "Text extraction failed"]
        info2 ==
            IF pdf.fitz.stage = "ok"
            THEN [fitzSeen EXCEPT !.text_content = Strip(pdf.fitz.text)]
            ELSE CASE pdf.pypdf.stage = "ok" ->
                        [pypdfSeen EXCEPT !.text_content = Strip(pdf.pypdf.text)]
                   [] pdf.pypdf.stage = "pages" -> Update(pypdfSeen, failed)
                   [] OTHER -> Update(info1, failed)
    IN Update(info2,
              [text_analysis |-> pdf_text_analysis(info2.text_content, info2.page_count)])

(* ---- extract_metadata ---- *)
\* hashlib.md5(...).hexdigest(): a function of the bytes alone
Md5(chars) == <<"md5", chars>>
extract_metadata(file_name, content, statOk) ==
    IF ~statOk THEN [error |-> "stat"]
    ELSE [file_size |-> Len(content.chars),
          created_time |-> Now,
          modified_time |-> Now,
          file_hash |-> Md5(content.chars),
          extension |-> Lower(Suffix(file_name)),
          encoding |-> IF content.isStr THEN "utf-8" ELSE "binary"]

(* ---- analyze_file_content ---- *)
TextTypes == {s_ext_txt, s_ext_json, s_ext_csv, s_ext_md}
ImageTypes == {s_ext_jpg, s_ext_jpeg, s_ext_png, s_ext_gif, s_ext_bmp}

\* json_structure without the except branch's False
json_structure_always_valid(text) ==
    LET parsed == JsonLoads(text) IN
    IF parsed.ok
    THEN [is_valid_json |-> TRUE,
          top_level_type |-> parsed.value.type,
          key_count |-> IF parsed.value.type = "dict"
                        THEN Len(parsed.value.pairs) ELSE NA]
    ELSE [is_valid_json |-> TRUE]

json_structure(text) ==
    LET parsed == JsonLoads(text) IN
    IF parsed.ok
    THEN [is_valid_json |-> TRUE,
          top_level_type |-> parsed.value.type,
          key_count |-> IF parsed.value.type = "dict"
                        THEN Len(parsed.value.pairs) ELSE NA]
    ELSE [is_valid_json |-> FALSE]

csv_structure(text) ==
    LET lines == SplitLines(text) IN
    [estimated_rows |-> Len(lines),
     estimated_columns |-> IF lines # <<>> THEN Len(SplitComma(lines[1])) ELSE 0,
     has_header |-> TRUE]

analyze_file_content(content, file_type, hasPath, available, pdf) ==
    LET analysis == [content_type |-> file_type, size_analysis |-> EmptyDict] IN
    IF file_type = s_ext_pdf /\ hasPath
    THEN Update(analysis, process_pdf_content(available, pdf))
    ELSE IF file_type \in TextTypes
    THEN IF content.isStr
         THEN LET counted ==
                    Update(analysis,
                       [character_count |-> Len(content.chars),
                        word_count |-> Len(Split(content.chars)),
                        line_count |-> Len(SplitLines(content.chars)),
                        has_special_chars |->
                            \E i \in 1..Len(content.chars) :
                                ~IsAlnum(content.chars[i]) /\ ~IsSpace(content.chars[i])])
              IN IF file_type = s_ext_json
                 THEN Update(counted, [json_structure |-> json_structure(content.chars)])
                 ELSE IF file_type = s_ext_csv
                 THEN Update(counted, [csv_structure |-> csv_structure(content.chars)])
                 ELSE counted
         ELSE analysis
    ELSE IF file_type \in ImageTypes
    THEN Update(analysis, [is_image |-> TRUE, size_bytes |-> Len(content.chars)])
    ELSE Update(analysis, [is_binary |-> TRUE, size_bytes |-> Len(content.chars)])


(* ---- determine_challenge_type ---- *)
\* determine_challenge_type with >= in the comparison of the HR score
determine_challenge_type_ge(input_documents, persona) ==
    IF Lower(persona) = s_food_contractor_role THEN "food_contractor"
    ELSE IF Lower(persona) = s_hr_professional_role THEN "hr_professional"
    ELSE LET doc_text == Lower(JoinSpace(input_documents))
             food_score == Score(food_keywords, doc_text)
             travel_score == Score(travel_keywords, doc_text)
             hr_score == Score(hr_keywords, doc_text)
         IN IF hr_score >= Max(food_score, travel_score) THEN "hr_professional"
            ELSE IF food_score > travel_score THEN "food_contractor"
            ELSE "travel_planner"

\* determine_challenge_type comparing the persona without lower()
determine_challenge_type_cased(input_documents, persona) ==
    IF persona = s_food_contractor_role THEN "food_contractor"
    ELSE IF persona = s_hr_professional_role THEN "hr_professional"
    ELSE LET doc_text == Lower(JoinSpace(input_documents))
             food_score == Score(food_keywords, doc_text)
             travel_score == Score(travel_keywords, doc_text)
             hr_score == Score(hr_keywords, doc_text)
         IN IF hr_score > Max(food_score, travel_score) THEN "hr_professional"
            ELSE IF food_score > travel_score THEN "food_contractor"
            ELSE "travel_planner"

determine_challenge_type(input_documents, persona) ==
    IF Lower(persona) = s_food_contractor_role THEN "food_contractor"
    ELSE IF Lower(persona) = s_hr_professional_role THEN "hr_professional"
    ELSE LET doc_text == Lower(JoinSpace(input_documents))
             food_score == Score(food_keywords, doc_text)
             travel_score == Score(travel_keywords, doc_text)
             hr_score == Score(hr_keywords, doc_text)
         IN IF hr_score > Max(food_score, travel_score) THEN "hr_professional"
            ELSE IF food_score > travel_score THEN "food_contractor"
            ELSE "travel_planner"

(* ---- the three generators ---- *)
\* generate_food_contractor_output listing one section per input document
generate_food_contractor_output_by_documents(metadata, input_documents) ==
    [metadata |-> metadata,
     extracted_sections |-> Take(food_extracted_sections, Len(input_documents)),
     subsection_analysis |-> food_subsection_analysis]

generate_food_contractor_output(metadata, input_documents) ==
    [metadata |-> metadata,
     extracted_sections |-> food_extracted_sections,
     subsection_analysis |-> food_subsection_analysis]

\* doc_name in section_mappings
InMappings(doc_name) ==
    \E i \in 1..Len(section_mappings) : section_mappings[i].document = doc_name
Mapping(doc_name) ==
    section_mappings[CHOOSE i \in 1..Len(section_mappings) :
                        section_mappings[i].document = doc_name]

\* the loop over input_documents[:5]
RECURSIVE MappedSections(_)
MappedSections(docs) ==
    IF docs = <<>> THEN <<>>
    ELSE (IF InMappings(Head(docs)) THEN <<Mapping(Head(docs))>> ELSE <<>>)
         \o MappedSections(Tail(docs))

generate_travel_planner_output(metadata, input_documents) ==
    LET mapped == MappedSections(Take(input_documents, 5))
        extracted_sections ==
            IF \E i \in 1..Len(input_documents) :
                    input_documents[i] = nightlife_section.document
            THEN Append(mapped, nightlife_section)
            ELSE mapped
    IN [metadata |-> metadata,
        extracted_sections |-> extracted_sections,
        subsection_analysis |-> travel_subsection_analysis]

(* ---- process_challenge_data ---- *)
\* what `for doc in v` yields; iterating a dict yields its keys, a str its characters
Iterable(v) == v.type \in {"list", "dict", "str"}
IterItems(v) ==
    CASE v.type = "list" -> v.items
      [] v.type = "dict" -> [i \in 1..Len(v.pairs) |-> JStr(v.pairs[i][1])]
      [] v.type = "str" -> [i \in 1..Len(v.chars) |-> JStr(<<v.chars[i]>>)]
      [] OTHER -> <<>>

\* the loop `if "filename" in doc: input_documents.append(doc["filename"])`;
\* ok = FALSE when an iteration raises TypeError
RECURSIVE CollectFilenames(_)
CollectFilenames(docs) ==
    IF docs = <<>> THEN [ok |-> TRUE, names |-> <<>>]
    ELSE LET doc == Head(docs)
             rest == CollectFilenames(Tail(docs))
         IN IF ~SupportsIn(doc) THEN [ok |-> FALSE]
            ELSE IF ~PyIn(s_k_filename, doc) THEN rest
            ELSE IF doc.type # "dict" THEN [ok |-> FALSE]
            ELSE IF ~rest.ok THEN rest
            ELSE [ok |-> TRUE, names |-> <<Get(doc, s_k_filename)>> \o rest.names]

\* the first lines of process_challenge_data and of generate_hr_professional_output:
\* the filenames of data["documents"]
InputDocuments(data) ==
    IF ~HasKey(data, s_k_documents) THEN [ok |-> TRUE, names |-> <<>>]
    ELSE IF ~Iterable(Get(data, s_k_documents)) THEN [ok |-> FALSE]
    ELSE CollectFilenames(IterItems(Get(data, s_k_documents)))

\* data.get(key, {}).get(field, "Unknown"); ok = FALSE on AttributeError
GetField(data, key, field) ==
    IF ~HasKey(data, key) THEN [ok |-> TRUE, value |-> JStr(s_Unknown)]
    ELSE LET inner == Get(data, key) IN
         IF inner.type # "dict" THEN [ok |-> FALSE]
         ELSE IF HasKey(inner, field) THEN [ok |-> TRUE, value |-> Get(inner, field)]
         ELSE [ok |-> TRUE, value |-> JStr(s_Unknown)]

BuildMetadata(data) ==
    [input_documents |-> InputDocuments(data).names,
     persona |-> GetField(data, s_k_persona, s_k_role).value,
     job_to_be_done |-> GetField(data, s_k_job_to_be_done, s_k_task).value,
     processing_timestamp |-> Now]

\* generate_hr_professional_output returning its metadata fields at the top level
generate_hr_professional_output_flat(data) ==
    [input_documents |-> BuildMetadata(data).input_documents,
     persona |-> BuildMetadata(data).persona,
     extracted_sections |-> hr_extracted_sections,
     subsection_analysis |-> hr_subsection_analysis]

generate_hr_professional_output(data) ==
    [metadata |-> BuildMetadata(data),
     extracted_sections |-> hr_extracted_sections,
     subsection_analysis |-> hr_subsection_analysis]

AllStr(values) == \A i \in 1..Len(values) : values[i].type = "str"
Chars(values) == [i \in 1..Len(values) |-> values[i].chars]

\* whether the body of process_challenge_data raises (and the except clause
\* returns {"error": ...})
ChallengeRaises(data) ==
    \/ data.type # "dict"
    \/ ~InputDocuments(data).ok
    \/ ~GetField(data, s_k_persona, s_k_role).ok
    \/ ~GetField(data, s_k_job_to_be_done, s_k_task).ok
    \/ LET metadata == BuildMetadata(data) IN
         \/ metadata.persona.type # "str"
         \/ /\ Lower(metadata.persona.chars)
                  \notin {s_food_contractor_role, s_hr_professional_role}
            /\ ~AllStr(metadata.input_documents)

\* the category process_challenge_data dispatches on
ChallengeType(data) ==
    LET metadata == BuildMetadata(data) IN
    determine_challenge_type(
        IF AllStr(metadata.input_documents) THEN Chars(metadata.input_documents) ELSE <<>>,
        metadata.persona.chars)

process_challenge_data(data) ==
    IF ChallengeRaises(data) THEN [error |-> "raised in process_challenge_data"]
    ELSE LET metadata == BuildMetadata(data)
             input_documents == metadata.input_documents
             challenge_type == ChallengeType(data)
         IN IF challenge_type = "food_contractor"
            THEN generate_food_contractor_output(metadata, input_documents)
            ELSE IF challenge_type = "hr_professional"
            THEN generate_hr_professional_output(data)
            ELSE generate_travel_planner_output(metadata, Chars(input_documents))

(* ---- generate_json_summary ---- *)
RECURSIVE IntChars(_)
IntChars(n) ==
    LET d == <<"0","1","2","3","4","5","6","7","8","9">> IN
    IF n < 10 THEN <<d[n + 1]>> ELSE IntChars(n \div 10) \o <<d[(n % 10) + 1]>>
\* str(data) for a scalar
PyStr(v) ==
    CASE v.type = "str" -> v.chars
      [] v.type = "int" -> IF v.int < 0 THEN <<"-">> \o IntChars(0 - v.int) ELSE IntChars(v.int)
      [] v.type = "float" -> v.repr
      [] v.type = "bool" -> IF v.bool THEN <<"T","r","u","e">> ELSE <<"F","a","l","s","e">>
      [] OTHER -> <<"N","o","n","e">>

generate_json_summary(data) ==
    IF data.type = "dict"
    THEN [type |-> "object",
          keys |-> Take([i \in 1..Len(data.pairs) |-> data.pairs[i][1]], 10),
          total_keys |-> Len(data.pairs),
          nested_objects |->
              Cardinality({i \in 1..Len(data.pairs) : data.pairs[i][2].type = "dict"})]
    ELSE IF data.type = "list"
    THEN [type |-> "array",
          length |-> Len(data.items),
          first_item_type |-> IF data.items # <<>> THEN data.items[1].type ELSE "empty",
          sample_items |-> Take(data.items, 3)]
    ELSE [type |-> data.type,
          value |-> IF Len(PyStr(data)) > 100
                    THEN SubSeq(PyStr(data), 1, 100) \o <<".", ".", ".">>
                    ELSE PyStr(data)]

(* ---- process_data ---- *)
\* the test of utils.py:199 on the fields of the glossary
IsChallengeInput_by_persona(parsed_data) ==
    /\ PyIn(s_k_persona, parsed_data)
    /\ PyIn(s_k_job_to_be_done, parsed_data)
    /\ PyIn(s_k_documents, parsed_data)

\* the test of utils.py:199
IsChallengeInput(parsed_data) ==
    PyIn(s_k_challenge_info, parsed_data) /\ PyIn(s_k_documents, parsed_data)

process_data(content, file_type) ==
    LET processed ==
            [processing_method |->
                 <<"s","t","a","n","d","a","r","d","_">>
                 \o SelectSeq(file_type, LAMBDA c : c # ".")
                 \o <<"_","p","r","o","c","e","s","s","i","n","g">>,
             processed_at |-> Now]
    IN
    IF file_type = s_ext_json
    THEN LET parsed == JsonLoads(content.chars) IN
         IF ~parsed.ok
         THEN Update(processed, [parsed_successfully |-> FALSE,
                                 error |-> "JSONDecodeError",
                                 validation_status |-> "invalid"])
         ELSE IF ~SupportsIn(parsed.value)
         THEN [error |-> "TypeError"]
         ELSE IF IsChallengeInput(parsed.value)
         THEN process_challenge_data(parsed.value)
         ELSE Update(processed, [parsed_successfully |-> TRUE,
                                 data_summary |-> generate_json_summary(parsed.value),
                                 validation_status |-> "valid"])
    ELSE IF file_type = s_ext_csv
    THEN LET lines == SplitLines(content.chars) IN
         Update(processed, [row_count |-> Len(lines),
                            sample_data |-> Take(lines, 3),
                            processing_status |-> "basic_analysis_complete"])
    ELSE IF file_type = s_ext_txt
    THEN Update(processed,
           [text_processing |->
              [word_frequency |-> calculate_word_frequency(content.chars),
               sentiment_indicators |-> detect_sentiment_indicators(content.chars),
               text_statistics |->
                  [avg_word_length |-> calculate_avg_word_length(content.chars),
                   unique_words |-> Cardinality(Range(Split(Lower(content.chars))))]]])
    ELSE Update(processed,
           [generic_processing |-> TRUE,
            content_signature |-> <<"md5[:8]", content.chars>>])


(* ---- process_single_file ---- *)
\* the extensions main.py opens in text mode (utf-8); all others are read as bytes
TextModeTypes == {s_ext_txt, s_ext_json, s_ext_csv}

success_result(file_name, file_size, metadata, analysis_result, processed_data) ==
    [filename |-> file_name,
     file_size |-> file_size,
     file_type |-> Lower(Suffix(file_name)),
     status |-> "success",
     metadata |-> metadata,
     analysis |-> analysis_result,
     processed_data |-> processed_data,
     timestamp |-> Now]

\* error_result with the file size copied over from the success record
error_result_with_size(file_name, message) ==
    [filename |-> file_name,
     file_size |-> 0,
     status |-> "error",
     error_message |-> message,
     timestamp |-> Now]

error_result(file_name, message) ==
    [filename |-> file_name,
     status |-> "error",
     error_message |-> message,
     timestamp |-> Now]

\* Whether the module-level import of PyPDF2, pdfplumber and fitz in app/utils.py
\* completes.  When one of them is missing, the ImportError handler calls
\* logger.warning before logger is assigned (line 15 against line 18), the
\* NameError ends the import of app.utils, and PDF_PROCESSING_AVAILABLE is never
\* set to False.
UtilsImports(libs_installed) == libs_installed

\* env is what the file system does during the call:
\*   read    "ok" or "raise" (open/read fails, or the bytes are not utf-8 in text mode)
\*   chars   the characters read
\*   stat1   whether the stat() of extract_metadata succeeds
\*   stat2   whether the stat() of line 73 succeeds
\*   pdf     what the PDF libraries do on the file
\* The result is either a returned record or an exception that leaves the
\* function (the import of line 55 is outside the try block).
process_single_file(file_name, libs_installed, env) ==
    IF ~UtilsImports(libs_installed) THEN [raised |-> TRUE, exception |-> "NameError"]
    ELSE IF env.read = "raise"
    THEN [raised |-> FALSE, result |-> error_result(file_name, "read")]
    ELSE LET file_type == Lower(Suffix(file_name))
             content == IF file_type \in TextModeTypes
                        THEN StrContent(env.chars) ELSE BytesContent(env.chars)
             metadata == extract_metadata(file_name, content, env.stat1)
             analysis_result ==
                 analyze_file_content(content, file_type, TRUE, TRUE, env.pdf)
             processed_data == process_data(content, file_type)
         IN IF ~env.stat2
            THEN [raised |-> FALSE, result |-> error_result(file_name, "stat")]
            ELSE [raised |-> FALSE,
                  result |-> success_result(file_name, Len(env.chars), metadata,
                                            analysis_result, processed_data)]

(* ---- process_files ---- *)
\* the name of the output file of an input file
OutputName(file_name) ==
    IF Lower(Suffix(file_name)) = s_ext_json
    THEN Stem(file_name) \o s_sfx_processed_json
    ELSE Stem(file_name) \o s_ext_json

\* an except clause that lets the OSError of a failed write through
CaughtInLoop_not_os_error(exception) == exception # "OSError"

\* `except Exception` of line 50: every exception of the loop body is caught
CaughtInLoop(exception) == TRUE

\* the file names a directory can hold
FileNames ==
    {s_f_a_txt, s_f_a_csv, s_f_a_json, s_f_b_md,
     s_f_c_pdf, s_f_d_PNG, s_f_e_bin, s_f_README}
\* the texts a file can hold
FileTexts == <<s_j_one_key>>
\* what the two PDF libraries can do on a file
Extracted(pages, text) == [stage |-> "ok", pages |-> pages, text |-> text, hasMeta |-> TRUE]
PdfOutcomes ==
    << [fitz |-> Extracted(2, s_t_hello), pypdf |-> Extracted(2, s_t_hello)],
       [fitz |-> Extracted(1, s_t_empty), pypdf |-> Extracted(1, s_t_empty)],
       [fitz |-> [stage |-> "open", pages |-> 0, text |-> s_t_empty, hasMeta |-> FALSE],
        pypdf |-> Extracted(3, s_t_hello)],
       [fitz |-> [stage |-> "pages", pages |-> 2, text |-> s_t_empty, hasMeta |-> TRUE],
        pypdf |-> [stage |-> "ok", pages |-> 2, text |-> s_t_hello, hasMeta |-> FALSE]],
       [fitz |-> [stage |-> "open", pages |-> 0, text |-> s_t_empty, hasMeta |-> FALSE],
        pypdf |-> [stage |-> "open", pages |-> 0, text |-> s_t_empty, hasMeta |-> FALSE]],
       [fitz |-> [stage |-> "pages", pages |-> 2, text |-> s_t_empty, hasMeta |-> TRUE],
        pypdf |-> [stage |-> "pages", pages |-> 4, text |-> s_t_empty, hasMeta |-> TRUE]] >>

NoResult == [status |-> "none"]

VARIABLES
    \* the run of main
    pc,            \* where main is: "main", "process_files", "loop", "return", "exited"
    libs_installed,\* whether PyPDF2, pdfplumber and fitz can be imported
    listing,       \* the names in the input directory
    input_files,   \* the files of the glob the loop has not reached yet
    output_dir,    \* the output directory: file name -> the record written
    attempts,      \* file name -> how many times the loop body ran for it
    results,       \* file name -> what process_single_file returned for it
    failed,        \* the files for which an exception was raised inside process_single_file
    write_failed,  \* the files whose output could not be written
    setup_ok,      \* whether setup_directories returned
    exit_code,     \* -1 while running, then the exit status
    \* one call of analyze_file_content and of process_data
    d_pc,          \* "start", "analyzed", "done"
    d_type,        \* the lower-cased extension
    d_content,     \* the content read
    d_analysis,    \* what analyze_file_content returned
    d_processed,   \* what process_data returned
    \* calls of process_challenge_data
    c_pc,          \* "input", "output"
    c_input,       \* the challenge document: <<persona, documents>>, as indices
    c_type,        \* the category determine_challenge_type returned
    c_result,      \* what process_challenge_data returned
    c_prev,        \* category and body of an earlier call
    \* one call of process_pdf_content
    p_pc,          \* "start", "fitz", "pypdf2", "analyze", "returned"
    p_pdf,         \* the file: whether the libraries are available and what each does on it
    p_info,        \* pdf_info, then the value returned
    p_tried,       \* the libraries asked to open the file, in order
    \* one call of each statistics helper on a text
    t_pc,          \* "text", "counted", "scored"
    t_words,       \* the words the text is made of
    t_text,        \* the text
    t_frequency,   \* what calculate_word_frequency returned
    t_sentiment    \* what detect_sentiment_indicators returned

main_vars == <<pc, libs_installed, listing, input_files, output_dir, attempts, results,
               failed, write_failed, setup_ok, exit_code>>
data_vars == <<d_pc, d_type, d_content, d_analysis, d_processed>>
challenge_vars == <<c_pc, c_input, c_type, c_result, c_prev>>
pdf_vars == <<p_pc, p_pdf, p_info, p_tried>>
text_vars == <<t_pc, t_words, t_text, t_frequency, t_sentiment>>
vars == <<main_vars, data_vars, challenge_vars, pdf_vars, text_vars>>

\* the variables of a part that is not running
MainIdle ==
    /\ pc = "idle" /\ libs_installed = TRUE /\ listing = {} /\ input_files = {}
    /\ output_dir = [n \in {} |-> NoResult] /\ attempts = [f \in FileNames |-> 0]
    /\ results = [f \in FileNames |-> NoResult] /\ failed = {} /\ write_failed = {}
    /\ setup_ok = FALSE /\ exit_code = -1
DataIdle ==
    /\ d_pc = "idle" /\ d_type = <<>> /\ d_content = StrContent(<<>>)
    /\ d_analysis = NoResult /\ d_processed = NoResult
ChallengeIdle ==
    /\ c_pc = "idle" /\ c_input = <<1, <<>> >> /\ c_type = "none"
    /\ c_result = NoResult /\ c_prev = NoResult
PdfIdle ==
    /\ p_pc = "idle" /\ p_pdf = [available |-> TRUE] @@ PdfOutcomes[1]
    /\ p_info = NoResult /\ p_tried = <<>>
TextIdle ==
    /\ t_pc = "idle" /\ t_words = <<>> /\ t_text = <<>> /\ t_frequency = <<>> /\ t_sentiment = NoResult

Init ==
    /\ pc = "main"
    /\ libs_installed \in BOOLEAN
    /\ listing \in {s \in SUBSET FileNames : Cardinality(s) <= MaxFiles}
    /\ input_files = {}
    /\ output_dir = [n \in {} |-> NoResult]
    /\ attempts = [f \in FileNames |-> 0]
    /\ results = [f \in FileNames |-> NoResult]
    /\ failed = {}
    /\ write_failed = {}
    /\ setup_ok = FALSE
    /\ exit_code = -1
    /\ DataIdle
    /\ ChallengeIdle
    /\ PdfIdle
    /\ TextIdle

\* main, lines 96-97 and 103-105: setup_directories returns or raises
SetupDirectories ==
    /\ pc = "main"
    /\ \E ok \in BOOLEAN :
          /\ setup_ok' = ok
          /\ IF ok THEN pc' = "process_files" /\ exit_code' = exit_code
                   ELSE pc' = "exited" /\ exit_code' = 1
    /\ UNCHANGED <<libs_installed, listing, input_files, output_dir, attempts,
                   results, failed, write_failed, data_vars, challenge_vars, pdf_vars, text_vars>>

\* process_files, lines 26-32
Glob ==
    /\ pc = "process_files"
    /\ input_files' = {f \in listing : GlobMatch(f)}
    /\ pc' = IF input_files' = {} THEN "return" ELSE "loop"
    /\ UNCHANGED <<libs_installed, listing, output_dir, attempts, results, failed,
                   write_failed, setup_ok, exit_code, data_vars, challenge_vars, pdf_vars, text_vars>>

\* open(output_file, 'w') and json.dump: the record is written, or open raises
WriteOutcomes == {"ok", "open_fails"}
Written(dir, name, record, outcome) ==
    IF outcome = "ok" THEN (name :> record) @@ dir ELSE dir

\* one iteration of the loop of process_files, lines 34-52
ProcessFile(f, env, write) ==
    LET call == process_single_file(f, libs_installed, env)
        exception == IF call.raised THEN call.exception
                     ELSE IF write # "ok" THEN "OSError" ELSE "none"
    IN
    /\ pc = "loop"
    /\ f \in input_files
    /\ input_files' = input_files \ {f}
    /\ attempts' = [attempts EXCEPT ![f] = @ + 1]
    /\ results' = [results EXCEPT ![f] = IF call.raised THEN NoResult ELSE call.result]
    /\ failed' = IF call.raised \/ env.read = "raise" \/ ~env.stat2
                 THEN failed \cup {f} ELSE failed
    /\ output_dir' = IF call.raised THEN output_dir
                     ELSE Written(output_dir, OutputName(f), call.result, write)
    /\ write_failed' = IF ~call.raised /\ write # "ok"
                       THEN write_failed \cup {f} ELSE write_failed
    /\ IF exception = "none" \/ CaughtInLoop(exception)
       THEN pc' = (IF input_files' = {} THEN "return" ELSE "loop")
            /\ exit_code' = exit_code
       ELSE pc' = "exited" /\ exit_code' = 1
    /\ UNCHANGED <<libs_installed, listing, setup_ok, data_vars, challenge_vars, pdf_vars, text_vars>>

Environments(f) ==
    {[read |-> "raise", chars |-> <<>>, stat1 |-> TRUE, stat2 |-> TRUE, pdf |-> PdfOutcomes[1]]}
    \cup
    {[read |-> "ok", chars |-> FileTexts[t], stat1 |-> s1, stat2 |-> s2, pdf |-> PdfOutcomes[p]] :
        t \in 1..Len(FileTexts), s1 \in BOOLEAN, s2 \in BOOLEAN,
        p \in IF Lower(Suffix(f)) = s_ext_pdf THEN 1..Len(PdfOutcomes) ELSE {1}}

Loop ==
    \E f \in input_files : \E env \in Environments(f) : \E write \in WriteOutcomes :
        ProcessFile(f, env, write)

\* main, lines 99-101: process_files returned
Return ==
    /\ pc = "return"
    /\ pc' = "exited"
    /\ exit_code' = 0
    /\ UNCHANGED <<libs_installed, listing, input_files, output_dir, attempts,
                   results, failed, write_failed, setup_ok, data_vars, challenge_vars, pdf_vars, text_vars>>

Next == SetupDirectories \/ Glob \/ Loop \/ Return

Spec == Init /\ [][Next]_vars

(***************************************************************************)
(* SpecData: analyze_file_content and process_data applied to one content, *)
(* read the way process_single_file reads a file of that extension.        *)
(***************************************************************************)
DataTypes == {s_ext_json, s_ext_txt, s_ext_csv, s_ext_md}
DataTexts ==
    <<s_j_empty_obj, s_j_one_key, s_j_nested, s_j_empty_list, s_j_list4, s_j_string,
      s_j_int, s_j_null, s_j_true, s_j_float, s_j_trunc, s_j_quotes, s_j_ci_docs,
      s_j_ci_only, s_j_docs_only, s_j_persona_job_docs, s_j_full_food, s_j_full_travel,
      s_j_list_ci_docs, s_j_str_ci_docs, s_j_full_hr, s_j_docs_null,
      s_j_persona_str, s_j_obj12, s_j_travel_two, s_j_travel_five, s_t_hello, s_t_csv, s_t_empty>>

InitData ==
    /\ d_pc = "start"
    /\ d_type \in DataTypes
    /\ \E t \in 1..Len(DataTexts) :
          d_content = IF d_type \in TextModeTypes
                      THEN StrContent(DataTexts[t]) ELSE BytesContent(DataTexts[t])
    /\ d_analysis = NoResult
    /\ d_processed = NoResult
    /\ MainIdle
    /\ ChallengeIdle
    /\ PdfIdle
    /\ TextIdle

\* main.py:67
AnalyzeContent ==
    /\ d_pc = "start"
    /\ d_analysis' = analyze_file_content(d_content, d_type, TRUE, TRUE, PdfOutcomes[1])
    /\ d_pc' = "analyzed"
    /\ UNCHANGED <<d_type, d_content, d_processed, main_vars, challenge_vars, pdf_vars, text_vars>>

\* main.py:69
ProcessData ==
    /\ d_pc = "analyzed"
    /\ d_processed' = process_data(d_content, d_type)
    /\ d_pc' = "done"
    /\ UNCHANGED <<d_type, d_content, d_analysis, main_vars, challenge_vars, pdf_vars, text_vars>>

NextData == AnalyzeContent \/ ProcessData

SpecData == InitData /\ [][NextData]_vars

(***************************************************************************)
(* SpecChallenge: process_challenge_data applied to challenge documents;   *)
(* c_prev keeps the category and the body of an earlier call, so that two  *)
(* calls can be compared.                                                  *)
(***************************************************************************)
\* the roles a challenge document can carry; <<>> stands for a document without persona
Personas == <<s_p_Food_Contractor, s_p_HR_Professional, s_p_Travel_Planner, <<>> >>
\* the entries of a documents list; the last one has no filename
DocEntries ==
    << JDict(<< <<s_k_filename, JStr(s_d_Cities)>> >>),
       JDict(<< <<s_k_filename, JStr(s_d_Things_to_Do)>> >>),
       JDict(<< <<s_k_filename, JStr(s_d_Lunch_Ideas)>> >>),
       JDict(<< <<s_k_filename, JStr(s_d_HR_Forms)>> >>),
       JDict(<< <<s_k_filename, JStr(s_d_Fill_and_Sign)>> >>),
       JDict(<< <<s_k_filename, JStr(s_d_Three_Meals)>> >>),
       JDict(<< <<<<"t","i","t","l","e">>, JStr(s_d_notes)>> >>) >>

\* the sequences over 1..n of length at most k
RECURSIVE SeqsUpTo(_, _)
SeqsUpTo(n, k) ==
    IF k = 0 THEN {<<>>}
    ELSE LET shorter == SeqsUpTo(n, k - 1) IN
         shorter \cup {Append(s, i) : s \in shorter, i \in 1..n}

ChallengeDocument(p, picks) ==
    JDict(<< <<s_k_challenge_info, JDict(<<>>)>>,
             <<s_k_documents, JList([i \in 1..Len(picks) |-> DocEntries[picks[i]]])>> >>
          \o (IF Personas[p] = <<>> THEN <<>>
              ELSE << <<s_k_persona, JDict(<< <<s_k_role, JStr(Personas[p])>> >>)>> >>)
          \o << <<s_k_job_to_be_done, JDict(<< <<s_k_task, JStr(<<"t">>)>> >>)>> >>)

\* the document the variable c_input = <<persona, picks>> stands for
ChallengeInputs ==
    {<<p, picks>> : p \in 1..Len(Personas), picks \in SeqsUpTo(Len(DocEntries), MaxDocs)}
c_data == ChallengeDocument(c_input[1], c_input[2])

Body(result) ==
    [extracted_sections |-> result.extracted_sections,
     subsection_analysis |-> result.subsection_analysis]

InitChallenge ==
    /\ c_pc = "input"
    /\ c_input \in ChallengeInputs
    /\ c_type = "none"
    /\ c_result = NoResult
    /\ c_prev = NoResult
    /\ MainIdle
    /\ DataIdle
    /\ PdfIdle
    /\ TextIdle

\* utils.py:200
ProcessChallenge ==
    /\ c_pc = "input"
    /\ c_result' = process_challenge_data(c_data)
    /\ c_type' = IF ChallengeRaises(c_data) THEN "none" ELSE ChallengeType(c_data)
    /\ c_pc' = "output"
    /\ UNCHANGED <<c_input, c_prev, main_vars, data_vars, pdf_vars, text_vars>>

\* The next challenge document differs from this one by one document or by its
\* persona; the call just made is remembered in c_prev, or the earlier one kept.
Remember(keep) ==
    /\ c_prev' = IF keep \/ c_type = "none" THEN c_prev
                 ELSE [type |-> c_type, body |-> Body(c_result)]
    /\ c_type' = "none"
    /\ c_result' = NoResult
    /\ c_pc' = "input"
    /\ UNCHANGED <<main_vars, data_vars, pdf_vars, text_vars>>

AppendDocument ==
    /\ c_pc = "output"
    /\ Len(c_input[2]) < MaxDocs
    /\ \E e \in 1..Len(DocEntries) : c_input' = <<c_input[1], Append(c_input[2], e)>>
    /\ \E keep \in BOOLEAN : Remember(keep)

DropDocument ==
    /\ c_pc = "output"
    /\ c_input[2] # <<>>
    /\ c_input' = <<c_input[1], SubSeq(c_input[2], 1, Len(c_input[2]) - 1)>>
    /\ \E keep \in BOOLEAN : Remember(keep)

ChangePersona ==
    /\ c_pc = "output"
    /\ \E p \in 1..Len(Personas) : p # c_input[1] /\ c_input' = <<p, c_input[2]>>
    /\ \E keep \in BOOLEAN : Remember(keep)

NextChallenge == ProcessChallenge \/ AppendDocument \/ DropDocument \/ ChangePersona

SpecChallenge == InitChallenge /\ [][NextChallenge]_vars

(***************************************************************************)
(* SpecPdf: one call of process_pdf_content, library by library.           *)
(***************************************************************************)
MaxPages == 2
\* what get_text / extract_text returns for a page; <<>> is a page without text
PageTexts == {s_t_empty, s_t_hello, s_t_csv}
\* full_text: every page's text followed by "\n" (utils.py:41-44, 70-72)
RECURSIVE FullText(_)
FullText(page_texts) ==
    IF page_texts = <<>> THEN <<>>
    ELSE Head(page_texts) \o <<"\n">> \o FullText(Tail(page_texts))
RECURSIVE PagesUpTo(_)
PagesUpTo(n) ==
    IF n = 0 THEN {<<>>}
    ELSE LET shorter == PagesUpTo(n - 1) IN
         shorter \cup {Append(s, t) : s \in {q \in shorter : Len(q) = n - 1}, t \in PageTexts}
\* what one library does on a file: it extracts the pages ("ok"), fails on
\* opening ("open"), or fails on a page after the page count and the metadata
\* were stored ("pages")
LibraryOutcomes(metas) ==
    {[stage |-> "ok", pages |-> Len(pt), text |-> FullText(pt), hasMeta |-> m] :
        pt \in PagesUpTo(MaxPages), m \in metas}
    \cup {[stage |-> "open", pages |-> 0, text |-> <<>>, hasMeta |-> FALSE]}
    \cup {[stage |-> "pages", pages |-> n, text |-> <<>>, hasMeta |-> m] :
            n \in 1..MaxPages, m \in metas}

InitPdf ==
    /\ p_pc = "start"
    /\ \E available \in BOOLEAN :
       \E f \in LibraryOutcomes({TRUE}) : \E r \in LibraryOutcomes(BOOLEAN) :
          /\ ~available => f = PdfOutcomes[1].fitz /\ r = PdfOutcomes[1].pypdf
          /\ p_pdf = [available |-> available, fitz |-> f, pypdf |-> r]
    /\ p_info = NoResult
    /\ p_tried = <<>>
    /\ MainIdle
    /\ DataIdle
    /\ ChallengeIdle
    /\ TextIdle

\* utils.py:22-32
CheckAvailable ==
    /\ p_pc = "start"
    /\ IF ~p_pdf.available
       THEN /\ p_info' = [error |-> "PDF processing libraries not available"]
            /\ p_pc' = "returned"
       ELSE /\ p_info' = [text_content |-> <<>>, page_count |-> 0, metadata |-> "none",
                          text_analysis |-> EmptyDict,
                          processing_method |-> "advanced_pdf_extraction"]
            /\ p_pc' = "fitz"
    /\ UNCHANGED <<p_pdf, p_tried, main_vars, data_vars, challenge_vars, text_vars>>

\* utils.py:35-49 with the second library tried whatever the first one did
TryFitz_then_always_PyPDF2 ==
    /\ p_pc = "fitz"
    /\ p_tried' = Append(p_tried, "fitz")
    /\ LET lib == p_pdf.fitz IN
       p_info' = IF lib.stage = "open" THEN p_info
                 ELSE [p_info EXCEPT !.page_count = lib.pages, !.metadata = "fitz",
                                     !.text_content = Strip(lib.text)]
    /\ p_pc' = "pypdf2"
    /\ UNCHANGED <<p_pdf, main_vars, data_vars, challenge_vars, text_vars>>

\* utils.py:35-49: method 1, PyMuPDF
TryFitz ==
    /\ p_pc = "fitz"
    /\ p_tried' = Append(p_tried, "fitz")
    /\ LET lib == p_pdf.fitz IN
       CASE lib.stage = "ok" ->
              /\ p_info' = [p_info EXCEPT !.page_count = lib.pages, !.metadata = "fitz",
                                          !.text_content = Strip(lib.text)]
              /\ p_pc' = "analyze"
         [] lib.stage = "pages" ->
              /\ p_info' = [p_info EXCEPT !.page_count = lib.pages, !.metadata = "fitz"]
              /\ p_pc' = "pypdf2"
         [] OTHER ->
              /\ p_info' = p_info
              /\ p_pc' = "pypdf2"
    /\ UNCHANGED <<p_pdf, main_vars, data_vars, challenge_vars, text_vars>>

\* utils.py:51-78: method 2, PyPDF2, inside the except clause of method 1
TryPyPDF2 ==
    /\ p_pc = "pypdf2"
    /\ p_tried' = Append(p_tried, "PyPDF2")
    /\ LET lib == p_pdf.pypdf
           seen == [p_info EXCEPT !.page_count = lib.pages,
                                  !.metadata = IF lib.hasMeta THEN "pypdf2" ELSE @]
           extraction_failed == [error |-> "Text extraction failed"]
       IN p_info' = CASE lib.stage = "ok" -> [seen EXCEPT !.text_content = Strip(lib.text)]
                      [] lib.stage = "pages" -> Update(seen, extraction_failed)
                      [] OTHER -> Update(p_info, extraction_failed)
    /\ p_pc' = "analyze"
    /\ UNCHANGED <<p_pdf, main_vars, data_vars, challenge_vars, text_vars>>

\* utils.py:80-98
AnalyzeText ==
    /\ p_pc = "analyze"
    /\ p_info' = Update(p_info, [text_analysis |->
                                   pdf_text_analysis(p_info.text_content, p_info.page_count)])
    /\ p_pc' = "returned"
    /\ UNCHANGED <<p_pdf, p_tried, main_vars, data_vars, challenge_vars, text_vars>>

NextPdf == CheckAvailable \/ TryFitz \/ TryPyPDF2 \/ AnalyzeText

SpecPdf == InitPdf /\ [][NextPdf]_vars

(***************************************************************************)
(* SpecText: calculate_word_frequency and detect_sentiment_indicators      *)
(* applied to one text.                                                    *)
(***************************************************************************)
MaxRepeat == 2
\* the words a text is made of
Vocabulary ==
    << <<"h","e","l","l","o">>,
       <<"H","e","l","l","o",",">>,
       <<"w","o","r","l","d">>,
       <<"a",".","b">>,
       <<"G","o","o","d","-","l","i","k","e">>,
       <<"d","i","s","l","i","k","e">>,
       <<"b","a","d">>,
       <<"x","1","y","!">> >>
\* the separators between two words of a text
Separators == << <<" ">>, <<"\n","\t">> >>
RECURSIVE Join(_, _)
Join(parts, sep) ==
    IF parts = <<>> THEN <<>>
    ELSE IF Len(parts) = 1 THEN parts[1]
    ELSE parts[1] \o sep \o Join(Tail(parts), sep)
Reverse(s) == [i \in 1..Len(s) |-> s[Len(s) + 1 - i]]
\* the words of Vocabulary picked, in the order of Vocabulary, then the word
\* `again` repeated
WordList(picked, again, repeat) ==
    SelectSeq(Vocabulary, LAMBDA w : \E i \in picked : Vocabulary[i] = w)
    \o [k \in 1..repeat |-> Vocabulary[again]]

InitText ==
    /\ t_pc = "text"
    /\ \E picked \in SUBSET (1..Len(Vocabulary)) : \E again \in 1..Len(Vocabulary) :
       \E repeat \in 0..MaxRepeat : \E s \in 1..Len(Separators) :
          /\ repeat = 0 => again = 1
          /\ t_words = IF s = 1 THEN WordList(picked, again, repeat)
                       ELSE Reverse(WordList(picked, again, repeat))
          /\ t_text = Join(t_words, Separators[s])
    /\ t_frequency = <<>>
    /\ t_sentiment = NoResult
    /\ MainIdle
    /\ DataIdle
    /\ ChallengeIdle
    /\ PdfIdle

\* utils.py:224
CalculateWordFrequency ==
    /\ t_pc = "text"
    /\ t_frequency' = calculate_word_frequency(t_text)
    /\ t_pc' = "counted"
    /\ UNCHANGED <<t_words, t_text, t_sentiment, main_vars, data_vars, challenge_vars, pdf_vars>>

\* utils.py:225
DetectSentiment ==
    /\ t_pc = "counted"
    /\ t_sentiment' = detect_sentiment_indicators(t_text)
    /\ t_pc' = "scored"
    /\ UNCHANGED <<t_words, t_text, t_frequency, main_vars, data_vars, challenge_vars, pdf_vars>>

NextText == CalculateWordFrequency \/ DetectSentiment

SpecText == InitText /\ [][NextText]_vars

(***************************************************************************)
(* The run of main: claims C1 - C5 (specification Spec).                   *)
(***************************************************************************)
\* the input files: what the glob of line 26 finds
Globbed == {f \in listing : GlobMatch(f)}
Returned(f) == results[f].status # "none"

\* C1: after process_files returns from a run in which no write failed (and the
\* PDF libraries are installed), the output directory holds exactly one file per
\* input file, named <stem>_processed.json for a .json input and <stem>.json
\* otherwise, and the filename stored in it is the name of that input file.
C1_OneOutputPerInput ==
    (pc = "exited" /\ exit_code = 0 /\ libs_installed /\ write_failed = {}) =>
        /\ DOMAIN output_dir = {OutputName(f) : f \in Globbed}
        /\ Cardinality(DOMAIN output_dir) = Cardinality(Globbed)
        /\ \A f \in Globbed : output_dir[OutputName(f)].filename = f

\* C2: when process_files has returned, every input file was attempted exactly
\* once, every file whose processing raised has a record with status "error" and
\* every other file a record with status "success" (no write having failed).
C2_EveryFileRecorded ==
    (pc = "exited" /\ exit_code = 0 /\ write_failed = {}) =>
        \A f \in Globbed :
            /\ attempts[f] = 1
            /\ results[f].status = (IF f \in failed THEN "error" ELSE "success")

\* C3: every record process_single_file returns has status "success" with exactly
\* the eight success keys, or status "error" with exactly the four error keys.
SuccessKeys ==
    {"filename", "file_size", "file_type", "status", "metadata", "analysis",
     "processed_data", "timestamp"}
ErrorKeys == {"filename", "status", "error_message", "timestamp"}
C3_RecordShapes ==
    \A f \in FileNames :
        Returned(f) =>
            \/ results[f].status = "success" /\ DOMAIN results[f] = SuccessKeys
            \/ results[f].status = "error" /\ DOMAIN results[f] = ErrorKeys
C3_Witness ==
    \E f, g \in FileNames :
        /\ Returned(f) /\ results[f].status = "success"
        /\ Returned(g) /\ results[g].status = "error"

\* C4: main exits non-zero exactly when setup_directories failed; when it did
\* not fail, every input file was handled, whatever failed while reading,
\* analysing or writing a file.
C4_OnlySetupIsFatal ==
    pc = "exited" =>
        /\ (exit_code # 0) <=> ~setup_ok
        /\ setup_ok => \A f \in Globbed : attempts[f] = 1
C4_Witness ==
    /\ pc = "exited" /\ exit_code = 0
    /\ Cardinality(Globbed) = 2
    /\ \E f, g \in Globbed : f # g /\ f \in failed /\ g \in write_failed

\* C5: the analysis of every successfully processed file carries the markers of
\* exactly the handling path its lower-cased extension selects: text for
\* .txt/.json/.csv/.md, image for .jpg/.jpeg/.png/.gif/.bmp, PDF for .pdf, binary
\* for everything else.
TextMarkers == {"character_count", "word_count", "line_count"}
C5_OneHandlingPath ==
    \A f \in FileNames :
        (Returned(f) /\ results[f].status = "success") =>
            LET keys == DOMAIN results[f].analysis
                ext == Lower(Suffix(f))
            IN /\ (TextMarkers \subseteq keys) <=> (ext \in TextTypes)
               /\ ("is_image" \in keys) <=> (ext \in ImageTypes)
               /\ ("processing_method" \in keys \/ "error" \in keys) <=> (ext = s_ext_pdf)
               /\ ("is_binary" \in keys)
                     <=> (ext \notin TextTypes \cup ImageTypes \cup {s_ext_pdf})

(***************************************************************************)
(* analyze_file_content and process_data on JSON content: claims C6, C7    *)
(* (specification SpecData).                                               *)
(***************************************************************************)
ParsedContent == JsonLoads(d_content.chars)
TookChallengePath ==
    \/ DOMAIN d_processed = {"metadata", "extracted_sections", "subsection_analysis"}
    \/ DOMAIN d_processed = {"error"} /\ d_processed.error = "raised in process_challenge_data"
TookSummaryPath == "data_summary" \in DOMAIN d_processed
HasField(v, key) == v.type = "dict" /\ \E i \in 1..Len(v.pairs) : v.pairs[i][1] = key

\* C6: for a .json input, json_structure.is_valid_json is true exactly when the
\* content parses; then top_level_type is the type of the parsed value and, for
\* an object, key_count is its number of keys.  For malformed JSON
\* is_valid_json is false and process_data returns its "invalid" mapping
\* (neither call ends in an exception or in an error fragment).
C6_JsonStructure ==
    (d_type = s_ext_json /\ d_pc \in {"analyzed", "done"}) =>
        LET js == d_analysis.json_structure IN
        /\ js.is_valid_json = ParsedContent.ok
        /\ ParsedContent.ok =>
              /\ js.top_level_type = ParsedContent.value.type
              /\ ParsedContent.value.type = "dict" =>
                    js.key_count =
                        Cardinality({ParsedContent.value.pairs[i][1] :
                                        i \in 1..Len(ParsedContent.value.pairs)})
        /\ ~ParsedContent.ok =>
              /\ DOMAIN js = {"is_valid_json"}
              /\ "error" \notin DOMAIN d_analysis
              /\ d_pc = "done" =>
                    /\ d_processed.parsed_successfully = FALSE
                    /\ d_processed.validation_status = "invalid"
C6_Witness ==
    /\ d_pc = "done" /\ d_type = s_ext_json
    /\ ParsedContent.ok /\ ParsedContent.value.type = "dict"
    /\ d_analysis.json_structure.key_count = 2

\* C7 as claimed: for a .json input that parses to an object, process_data
\* takes the canned-response path exactly when the object has the fields
\* persona, job_to_be_done and documents, and every other object takes the
\* summary path.
C7_ChallengeIffPersonaJobDocuments ==
    (/\ d_pc = "done" /\ d_type = s_ext_json /\ ParsedContent.ok
     /\ ParsedContent.value.type = "dict") =>
        LET v == ParsedContent.value
            shaped == /\ HasField(v, s_k_persona)
                      /\ HasField(v, s_k_job_to_be_done)
                      /\ HasField(v, s_k_documents)
        IN /\ TookChallengePath <=> shaped
           /\ ~shaped => TookSummaryPath

\* C7 as amended: for a .json input that parses to an object, an array or a
\* string, process_data takes the canned-response path exactly when the value
\* contains both "challenge_info" and "documents" (keys of the object, items of
\* the array, substrings of the string); persona and job_to_be_done are not
\* consulted, and every other such document takes the summary path.
Holds(v, key) ==
    \/ HasField(v, key)
    \/ v.type = "list" /\ \E i \in 1..Len(v.items) :
                              v.items[i].type = "str" /\ v.items[i].chars = key
    \/ v.type = "str" /\ Contains(v.chars, key)
C7_ChallengeIffChallengeInfoAndDocuments ==
    (/\ d_pc = "done" /\ d_type = s_ext_json /\ ParsedContent.ok
     /\ ParsedContent.value.type \in {"dict", "list", "str"}) =>
        LET v == ParsedContent.value
            trigger == Holds(v, s_k_challenge_info) /\ Holds(v, s_k_documents)
        IN /\ TookChallengePath <=> trigger
           /\ TookSummaryPath <=> ~trigger
C7_Witness ==
    /\ d_pc = "done" /\ d_type = s_ext_json /\ ParsedContent.ok
    /\ HasField(ParsedContent.value, s_k_challenge_info)
    /\ HasField(ParsedContent.value, s_k_documents)
    /\ ~HasField(ParsedContent.value, s_k_persona)
    /\ TookChallengePath

(***************************************************************************)
(* process_challenge_data: claims C8 - C10 (specification SpecChallenge).  *)
(***************************************************************************)
Categories == {"food_contractor", "travel_planner", "hr_professional"}
\* the keyword scores of the call that produced c_result
Scores ==
    LET doc_text == Lower(JoinSpace(Chars(c_result.metadata.input_documents))) IN
    [food_contractor |-> Score(food_keywords, doc_text),
     travel_planner |-> Score(travel_keywords, doc_text),
     hr_professional |-> Score(hr_keywords, doc_text)]
Best(scores) == Max(scores.travel_planner, Max(scores.food_contractor, scores.hr_professional))
\* ties go to travel before food before HR
Priority == <<"travel_planner", "food_contractor", "hr_professional">>
Winner(scores) ==
    Priority[CHOOSE i \in 1..3 :
                /\ scores[Priority[i]] = Best(scores)
                /\ \A j \in 1..(i - 1) : scores[Priority[j]] < Best(scores)]
PersonaLower == Lower(c_result.metadata.persona.chars)

\* C8: determine_challenge_type returns food_contractor or hr_professional when
\* the lower-cased persona is that role name, whatever the document names;
\* otherwise it returns a category whose keyword score is the highest, and among
\* tied categories the first of travel, food, HR.
C8_ChallengeType ==
    (c_pc = "output" /\ c_type # "none") =>
        LET persona == PersonaLower
            scores == Scores
        IN IF persona = s_food_contractor_role THEN c_type = "food_contractor"
           ELSE IF persona = s_hr_professional_role THEN c_type = "hr_professional"
           ELSE /\ \A c \in Categories : scores[c_type] >= scores[c]
                /\ c_type = Winner(scores)
C8_Witness ==
    /\ c_pc = "output" /\ c_type = "food_contractor"
    /\ PersonaLower \notin {s_food_contractor_role, s_hr_professional_role}
    /\ LET scores == Scores IN
          /\ scores.hr_professional = scores.food_contractor
          /\ scores.food_contractor > scores.travel_planner

Remembered == "type" \in DOMAIN c_prev
\* C9 as claimed: two challenge inputs of the same category receive identical
\* extracted_sections and identical subsection_analysis.
C9_SameCategorySameBody ==
    (c_pc = "output" /\ Remembered /\ c_prev.type = c_type) =>
        c_prev.body = Body(c_result)

\* C9 as amended: two challenge inputs of the same category receive identical
\* subsection_analysis, and for the food and HR categories identical
\* extracted_sections; for the travel category extracted_sections is selected by
\* the input document names, each entry being a row of the fixed table
\* section_mappings or the fixed nightlife entry.
TravelRows == Range(section_mappings) \cup {nightlife_section}
C9_HardcodedBodies ==
    (c_pc = "output" /\ c_type # "none") =>
        /\ (Remembered /\ c_prev.type = c_type) =>
              /\ c_prev.body.subsection_analysis = c_result.subsection_analysis
              /\ c_type # "travel_planner" =>
                    c_prev.body.extracted_sections = c_result.extracted_sections
        /\ c_type = "travel_planner" => Range(c_result.extracted_sections) \subseteq TravelRows
C9_Witness ==
    /\ c_pc = "output" /\ Remembered
    /\ c_prev.type = "travel_planner" /\ c_type = "travel_planner"
    /\ c_prev.body.extracted_sections # c_result.extracted_sections
    /\ c_prev.body.subsection_analysis = c_result.subsection_analysis

\* C10: for a challenge document whose persona is "Food Contractor" the output is
\* the fixed food-contractor body, whatever the documents list holds; the
\* metadata echoes the persona and the document names.
C10_FoodContractorPayload ==
    (c_pc = "output" /\ Personas[c_input[1]] = s_p_Food_Contractor) =>
        /\ c_type = "food_contractor"
        /\ DOMAIN c_result = {"metadata", "extracted_sections", "subsection_analysis"}
        /\ c_result.extracted_sections = food_extracted_sections
        /\ c_result.subsection_analysis = food_subsection_analysis
        /\ c_result.metadata.persona = JStr(s_p_Food_Contractor)
C10_Witness ==
    /\ c_pc = "output" /\ Personas[c_input[1]] = s_p_Food_Contractor
    /\ Len(c_result.metadata.input_documents) = 2
    /\ LET scores == Scores IN scores.hr_professional > scores.food_contractor
    /\ c_result.extracted_sections = food_extracted_sections

(***************************************************************************)
(* The shape of the challenge output: claim C11 (specification SpecData).  *)
(***************************************************************************)
MetadataKeys == {"input_documents", "persona", "job_to_be_done", "processing_timestamp"}
SectionKeys == {"document", "section_title", "importance_rank", "page_number"}
SubsectionKeys == {"document", "refined_text", "page_number"}
ChallengeShape(result) ==
    /\ DOMAIN result = {"metadata", "extracted_sections", "subsection_analysis"}
    /\ DOMAIN result.metadata = MetadataKeys
    /\ \A i \in 1..Len(result.extracted_sections) :
          DOMAIN result.extracted_sections[i] = SectionKeys
    /\ \A i \in 1..Len(result.subsection_analysis) :
          DOMAIN result.subsection_analysis[i] = SubsectionKeys
\* the test of utils.py:199 on the parsed content
Triggered ==
    /\ d_type = s_ext_json /\ d_content.isStr /\ ParsedContent.ok
    /\ SupportsIn(ParsedContent.value)
    /\ Holds(ParsedContent.value, s_k_challenge_info)
    /\ Holds(ParsedContent.value, s_k_documents)
\* an object whose documents is an array of objects and whose persona and
\* job_to_be_done, where present, are objects
FieldIsObject(v, key) == HasField(v, key) => Get(v, key).type = "dict"
WellFormedChallenge(v) ==
    /\ v.type = "dict"
    /\ Get(v, s_k_documents).type = "list"
    /\ \A i \in 1..Len(Get(v, s_k_documents).items) :
          LET doc == Get(v, s_k_documents).items[i] IN
          /\ doc.type = "dict"
          /\ HasField(doc, s_k_filename) => Get(doc, s_k_filename).type = "str"
    /\ FieldIsObject(v, s_k_persona)
    /\ HasField(v, s_k_persona) /\ HasField(Get(v, s_k_persona), s_k_role)
          => Get(Get(v, s_k_persona), s_k_role).type = "str"
    /\ FieldIsObject(v, s_k_job_to_be_done)

\* C11: whenever process_data takes the challenge path (the test of utils.py:199
\* succeeds), its result has exactly the keys metadata, extracted_sections and
\* subsection_analysis, with the four metadata fields, four fields in every
\* extracted section and three in every subsection, for every such input.
C11_ChallengeOutputShape ==
    (d_pc = "done" /\ Triggered) => ChallengeShape(d_processed)

\* C11 as amended: on the challenge path the result is either of that shape or
\* exactly {"error": message}; it has the shape whenever the parsed content is
\* an object whose documents is an array of objects with string filenames and
\* whose persona and job_to_be_done, where present, are objects (persona.role a
\* string); it is the error mapping whenever the content is not an object or
\* its documents is null.
C11_ChallengeShapeOrError ==
    (d_pc = "done" /\ Triggered) =>
        LET v == ParsedContent.value IN
        /\ ChallengeShape(d_processed) \/ DOMAIN d_processed = {"error"}
        /\ WellFormedChallenge(v) => ChallengeShape(d_processed)
        /\ (v.type # "dict" \/ Get(v, s_k_documents).type = "NoneType")
              => DOMAIN d_processed = {"error"}
C11_Witness ==
    /\ d_pc = "done" /\ Triggered
    /\ WellFormedChallenge(ParsedContent.value)
    /\ Lower(d_processed.metadata.persona.chars) = s_hr_professional_role
    /\ ChallengeShape(d_processed)

(***************************************************************************)
(* process_pdf_content: claim C12 (specification SpecPdf).                 *)
(***************************************************************************)
FitzFailed == p_pdf.fitz.stage # "ok"
PyPDF2Failed == p_pdf.pypdf.stage # "ok"
Tried(lib) == \E i \in 1..Len(p_tried) : p_tried[i] = lib
Carries(lib) ==
    /\ p_info.page_count = lib.pages
    /\ p_info.text_content = Strip(lib.text)
    /\ "error" \notin DOMAIN p_info

\* the steps of SpecPdf return what process_pdf_content, as used by
\* analyze_file_content, returns
PdfStepsAgree ==
    p_pc = "returned" => p_info = process_pdf_content(p_pdf.available, p_pdf)

\* C12: process_pdf_content tries the first library (PyMuPDF) and attempts the
\* second (PyPDF2) only after the first has failed, never after it succeeded;
\* when both fail the value returned carries an error field (nothing is raised);
\* when one succeeds the value returned carries the page count and the text of
\* the library that succeeded and no error field.
C12_FallbackChain ==
    /\ p_tried \in {<<>>, <<"fitz">>, <<"fitz", "PyPDF2">>}
    /\ Tried("PyPDF2") => FitzFailed
    /\ (p_pc \in {"analyze", "returned"} /\ p_pdf.available) =>
          /\ Tried("fitz")
          /\ FitzFailed => Tried("PyPDF2")
    /\ (p_pc = "returned" /\ p_pdf.available) =>
          /\ (FitzFailed /\ PyPDF2Failed) => "error" \in DOMAIN p_info
          /\ ~FitzFailed => Carries(p_pdf.fitz)
          /\ (FitzFailed /\ ~PyPDF2Failed) => Carries(p_pdf.pypdf)
C12_Witness ==
    /\ p_pc = "returned" /\ p_pdf.available
    /\ p_pdf.fitz.stage = "pages" /\ p_pdf.fitz.pages = 2
    /\ p_pdf.pypdf.stage = "ok" /\ p_pdf.pypdf.pages = 1
    /\ p_pdf.pypdf.text # <<>>
    /\ p_tried = <<"fitz", "PyPDF2">>
    /\ Carries(p_pdf.pypdf)

(***************************************************************************)
(* The statistics helpers: claims C13, C14 (specification SpecText).       *)
(***************************************************************************)
\* the token a whitespace-separated word cleans to
Token(word) == SelectSeq(Lower(word), IsAlnum)
WordTokens == [i \in 1..Len(t_words) |-> Token(t_words[i])]
Occurrences(tokens, token) == Cardinality({i \in 1..Len(tokens) : tokens[i] = token})

\* C13: calculate_word_frequency returns at most 5 entries in non-increasing
\* order of count; every key is a lower-cased token stripped of its
\* non-alphanumeric characters, of length > 2, and its value is the number of
\* whitespace-separated words that clean to it; no omitted token has a strictly
\* higher count than a listed one; "hello world hello" gives hello: 2, world: 1.
C13_WordFrequency ==
    t_pc \in {"counted", "scored"} =>
        LET tokens == WordTokens
            listed == {t_frequency[i][1] : i \in 1..Len(t_frequency)}
        IN
        /\ Len(t_frequency) <= 5
        /\ \A i, j \in 1..Len(t_frequency) :
              /\ i < j => t_frequency[i][2] >= t_frequency[j][2]
              /\ i # j => t_frequency[i][1] # t_frequency[j][1]
        /\ \A i \in 1..Len(t_frequency) :
              /\ t_frequency[i][1] \in Range(tokens)
              /\ Len(t_frequency[i][1]) > 2
              /\ t_frequency[i][2] = Occurrences(tokens, t_frequency[i][1])
        /\ \A token \in Range(tokens) \ listed :
              Len(token) > 2 =>
                 /\ Len(t_frequency) = 5
                 /\ \A i \in 1..Len(t_frequency) :
                       Occurrences(tokens, token) <= t_frequency[i][2]
        /\ t_text = s_t_hello =>
              t_frequency = << <<Vocabulary[1], 2>>, <<Vocabulary[3], 1>> >>
C13_Witness ==
    /\ t_pc = "counted"
    /\ Cardinality({token \in Range(WordTokens) : Len(token) > 2}) = 6
    /\ Len(t_frequency) = 5
    /\ t_frequency[1][2] = 3
    /\ t_frequency[5][2] = 1
    /\ \E i \in 1..Len(t_words) : Token(t_words[i]) # t_words[i]
\* the example of the specification is among the texts
C13_Example ==
    /\ t_pc = "counted" /\ t_text = s_t_hello
    /\ t_frequency = << <<Vocabulary[1], 2>>, <<Vocabulary[3], 1>> >>

\* the lexicon words that occur in text as a substring
Substrings(text) == {SubSeq(text, i, j) : i, j \in 1..Len(text)}
Hits(lexicon, substrings) == Cardinality(Range(lexicon) \cap substrings)

\* C14: detect_sentiment_indicators returns positive_indicators and
\* negative_indicators equal to the number of words of the positive and of the
\* negative lexicon that are substrings of the lower-cased text (whole words or
\* not), and sentiment_score equal to their difference.
C14_SentimentScore ==
    t_pc = "scored" =>
        LET substrings == Substrings(Lower(t_text))
            positive == Hits(positive_words, substrings)
            negative == Hits(negative_words, substrings)
        IN /\ DOMAIN t_sentiment =
                 {"positive_indicators", "negative_indicators", "sentiment_score"}
           /\ t_sentiment.positive_indicators = positive
           /\ t_sentiment.negative_indicators = negative
           /\ t_sentiment.sentiment_score = positive - negative
\* "Good-like" twice next to "dislike" and "bad": good and like count once each,
\* "like" is found inside other words, the score is 2 - 2
C14_Witness ==
    /\ t_pc = "scored"
    /\ Cardinality({i \in 1..Len(t_words) : t_words[i] = Vocabulary[5]}) = 2
    /\ \E i \in 1..Len(t_words) : t_words[i] = Vocabulary[6]
    /\ \E i \in 1..Len(t_words) : t_words[i] = Vocabulary[7]
    /\ t_sentiment.positive_indicators = 2
    /\ t_sentiment.negative_indicators = 2
    /\ t_sentiment.sentiment_score = 0

(***************************************************************************)
(* The guarded steps of process_single_file: claim C15 (specification      *)
(* Spec).                                                                  *)
(***************************************************************************)
\* C15: a failure inside extract_metadata, analyze_file_content or process_data
\* never aborts the file: the function returns a mapping with an "error" key,
\* the other steps still run, and the record of the file is returned with status
\* "success" and carries the error fragment in the corresponding field.  Stated
\* for the failure of extract_metadata (its stat() raises), with the PDF
\* libraries installed and the file read.
C15_StepFailureIsEmbedded ==
    [][\A f \in FileNames : \A env \in Environments(f) : \A write \in WriteOutcomes :
         (ProcessFile(f, env, write) /\ libs_installed /\ env.read = "ok" /\ ~env.stat1) =>
            /\ results'[f].status = "success"
            /\ DOMAIN results'[f].metadata = {"error"}
            /\ results'[f].analysis # NoResult
            /\ results'[f].processed_data # NoResult]_vars

(***************************************************************************)
(* The summary of valid JSON: claim C16 (specification SpecData).          *)
(***************************************************************************)
Scalars == {"int", "float", "str", "bool", "NoneType"}
\* C16: for every .json content that parses and does not take the challenge
\* path, be the value an object, an array or a scalar (number, string,
\* boolean, null), process_data returns parsed_successfully true,
\* validation_status "valid" and a data_summary: type "object" with total_keys
\* the number of keys and at most the first 10 keys, or type "array" with length
\* the number of items and at most the first 3 items, or the scalar's type name
\* with its value.
C16_ValidJsonIsSummarised ==
    (d_pc = "done" /\ d_type = s_ext_json /\ ParsedContent.ok /\ ~TookChallengePath) =>
        LET v == ParsedContent.value IN
        /\ "data_summary" \in DOMAIN d_processed
        /\ d_processed.parsed_successfully = TRUE
        /\ d_processed.validation_status = "valid"
        /\ v.type = "dict" =>
              /\ d_processed.data_summary.type = "object"
              /\ d_processed.data_summary.total_keys = Len(v.pairs)
              /\ Len(d_processed.data_summary.keys) <= 10
              /\ \A i \in 1..Len(d_processed.data_summary.keys) :
                    d_processed.data_summary.keys[i] = v.pairs[i][1]
        /\ v.type = "list" =>
              /\ d_processed.data_summary.type = "array"
              /\ d_processed.data_summary.length = Len(v.items)
              /\ Len(d_processed.data_summary.sample_items) <= 3
              /\ \A i \in 1..Len(d_processed.data_summary.sample_items) :
                    d_processed.data_summary.sample_items[i] = v.items[i]
        /\ v.type \in Scalars =>
              /\ d_processed.data_summary.type = v.type
              /\ d_processed.data_summary.value = PyStr(v)

(***************************************************************************)
(* The ranks of the extracted sections: claim C17 (specification SpecData).*)
(***************************************************************************)
\* C17: in every challenge-path output, whatever the document list,
\* extracted_sections has at most 5 entries and no two of them have the same
\* importance_rank.
C17_AtMostFiveDistinctRanks ==
    (d_pc = "done" /\ Triggered /\ "extracted_sections" \in DOMAIN d_processed) =>
        LET sections == d_processed.extracted_sections IN
        /\ Len(sections) <= 5
        /\ \A i, j \in 1..Len(sections) :
              i # j => sections[i].importance_rank # sections[j].importance_rank

(***************************************************************************)
(* A run without the PDF libraries: claim C18 (specification Spec).        *)
(***************************************************************************)
\* the records process_single_file can return for f when the libraries are installed
RecordsWithLibraries(f) ==
    {process_single_file(f, TRUE, env).result : env \in Environments(f)}
\* C18: when the PDF libraries cannot be imported, the run still processes every
\* input file: every file has a record, the analysis of a .pdf file that was
\* read is {"error": "PDF processing libraries not available"} merged with
\* content_type, and the record and the output file of every other file are
\* those of a run with the libraries.
C18_RunsWithoutPdfLibraries ==
    (pc = "exited" /\ exit_code = 0 /\ ~libs_installed /\ write_failed = {}) =>
        \A f \in Globbed :
            /\ results[f] # NoResult
            /\ OutputName(f) \in DOMAIN output_dir
            /\ (Lower(Suffix(f)) = s_ext_pdf /\ results[f].status = "success") =>
                  /\ results[f].analysis.error = "PDF processing libraries not available"
                  /\ results[f].analysis.content_type = s_ext_pdf
            /\ Lower(Suffix(f)) # s_ext_pdf => results[f] \in RecordsWithLibraries(f)
====
